---- MODULE Spec2Model ----
(***************************************************************************)
(* Mercurial 1.7.5 as bundled in helloandre/cr48: the commands of          *)
(* mercurial/commands.py and hgext/mq.py that write the repository, run    *)
(* by concurrent processes over one repository.                            *)
(*                                                                         *)
(* A command is the sequence of the steps its code takes (lock             *)
(* acquisitions, transaction steps, revlog appends, strips), written as a  *)
(* program of operations with the try/finally and try/except structure of  *)
(* the source.  Every process runs one command at a time, one operation    *)
(* per step, so that the steps of different processes interleave.          *)
(*                                                                         *)
(* mercurial/lock.py, transaction.py, localrepo.py and repair.py are not   *)
(* part of the sources at hand: their operations are modelled from the     *)
(* specification (sections 3.3, 4.4, 4.7, 5) and from what their callers   *)
(* in commands.py and mq.py document.                                      *)
(***************************************************************************)
EXTENDS Integers, Sequences, FiniteSets, TLC

\* ---------------------------------------------------------------- bounds
\* number of concurrent processes
NProcs == 2
\* number of changesets ever created
MaxId == 2
\* patches of one qpush, changesets of one bundle, hunks of one import
MaxBatch == 2

Procs == 1..NProcs
Ids == 1..MaxId

VARIABLES
    ps,        \* per process: its command, where it is in it, and its memory
    cl,        \* store/00changelog.i: the changesets, oldest first
    mf,        \* store/00manifest.i: per revision the changeset it belongs to
    fl,        \* store/data/<file>.i: per revision the changeset it belongs to
    journal,   \* store/journal: the lengths recorded by the running transaction
    undo,      \* store/undo: the journal of the last closed transaction
    nextid,    \* the next changeset to be created
    applied,   \* patches/status: the applied stack of mq, as changesets
    backups,   \* strip-backup: the changesets saved in backup bundles
    txpre,     \* history: the store when the journaled transaction began
    rd,        \* the lock-free reader: position, changelog it read, outcome
    ctxs,      \* the changesets by node: their parents and manifest
    nnodes,    \* the number of nodes ever created
    dirstate,  \* .hg/dirstate: the two parents and the state of every path
    ms,        \* .hg/merge/state: the status of every path under resolution
    mq,        \* the patch queue: series, applied entries, active guards
    ret,       \* the last command of the user and what it returned
    gs,        \* a patch's guards, the active guards, what pushable answers
    acl,       \* the acl hook: its configuration, the changelog, its outcome
    remote,    \* the repository pushed to: its changesets by node
    queues,    \* the patch queues: the registered names, the active name
    pk,        \* a pushkey namespace and the pushes running on it
    oa         \* an OAuth authorizer, its credentials file, what was loaded

vars == <<ps, cl, mf, fl, journal, undo, nextid, applied, backups, txpre,
          rd, ctxs, nnodes, dirstate, ms, mq, ret, gs, acl, remote, queues, pk,
          oa>>

\* the store and the processes working on it
core == <<ps, cl, mf, fl, journal, undo, nextid, applied, backups, txpre, rd>>

\* the working directory and the patch queue of one user
repo == <<ctxs, nnodes, dirstate, ms, mq, ret>>

\* what the steps of the processes leave alone
aux == <<repo, gs, acl, remote, queues, pk, oa>>

\* what the commands of the user leave alone
notrepo == <<core, gs, acl, remote, queues, pk, oa>>

store == [cl |-> cl, mf |-> mf, fl |-> fl]

Range(s) == {s[i] : i \in 1..Len(s)}

Min(a, b) == IF a < b THEN a ELSE b

Prefix(s, n) == SubSeq(s, 1, Min(n, Len(s)))

\* ------------------------------------------------- programs of operations
\* One operation of a command.  tag "n": a statement of the normal flow; "f": a
\* statement of a finally block; "x": a statement of an except block that
\* re-raises.  back: how many operations before this one its try block begins.
\* n: how many revisions an append is about.  b: the backup mode of a strip.
Op(o) == [op |-> o, tag |-> "n", back |-> 0, n |-> 1, b |-> ""]

OpN(o, k) == [op |-> o, tag |-> "n", back |-> 0, n |-> k, b |-> ""]

OpB(o, mode) == [op |-> o, tag |-> "n", back |-> 0, n |-> 1, b |-> mode]

Handlers(body, hs, t) ==
    [i \in 1..Len(hs) |-> [hs[i] EXCEPT !.tag = t, !.back = Len(body) + i - 1]]

\* try: body  finally: fin
TryFinally(body, fin) == body \o Handlers(body, fin, "f")

\* try: body  except: exc; raise
TryExcept(body, exc) == body \o Handlers(body, exc, "x")

\* a faulty commitctx: the changelog is written before the manifest and the
\* files
commitctx_clfirst ==
    <<Op("lock")>> \o
    TryFinally(<<Op("transaction"), Op("changelog_add"), Op("filelog_add"),
                 Op("manifest_add"), Op("tr_close")>>,
               <<Op("tr_release"), Op("unlock")>>)

\* localrepo.commitctx: the store lock, one transaction, the file revisions,
\* the manifest, the changelog entry last, the pretxncommit hook and close.
commitctx ==
    <<Op("lock")>> \o
    TryFinally(<<Op("transaction"), Op("filelog_add"), Op("manifest_add"),
                 Op("changelog_add"), Op("tr_close")>>,
               <<Op("tr_release"), Op("unlock")>>)

\* localrepo.commit: wlock around commitctx.
localrepo_commit ==
    <<Op("wlock")>> \o TryFinally(commitctx, <<Op("wunlock")>>)

\* localrepo.rollback: wlock, then lock, truncate to the undo journal.
localrepo_rollback ==
    TryFinally(<<Op("wlock"), Op("lock"), Op("rollback")>>,
               <<Op("unlock"), Op("wunlock")>>)

\* a faulty addchangegroup: the changelog is written before the manifests
\* and the files
addchangegroup_clfirst(k) ==
    <<Op("transaction")>> \o
    TryFinally(<<OpN("changelog_add", k), OpN("manifest_add", k),
                 OpN("filelog_add", k), Op("tr_close")>>,
               <<Op("tr_release")>>)

\* localrepo.addchangegroup(k changesets): one transaction, manifests and
\* files first, the changelog last.
addchangegroup(k) ==
    <<Op("transaction")>> \o
    TryFinally(<<OpN("manifest_add", k), OpN("filelog_add", k),
                 OpN("changelog_add", k), Op("tr_close")>>,
               <<Op("tr_release")>>)

\* commands.commit
commands_commit == localrepo_commit

\* queue._apply(series of k patches): per patch a forced commit and the
\* append to the applied stack.
RECURSIVE queue__apply(_)
queue__apply(k) ==
    IF k = 0 THEN <<>>
    ELSE localrepo_commit \o <<Op("applied_append")>> \o queue__apply(k - 1)

\* a faulty queue.apply: the except clause (tr.abort, repo.invalidate,
\* repo.dirstate.invalidate, raise) is missing
queue_apply_noexcept(k) ==
    TryFinally(<<Op("wlock"), Op("lock"), Op("transaction")>> \o
               queue__apply(k) \o <<Op("tr_close"), Op("save_dirty")>>,
               <<Op("tr_release"), Op("unlock"), Op("wunlock"),
                 Op("removeundo")>>)

\* queue.apply
queue_apply(k) ==
    TryFinally(
        <<Op("wlock"), Op("lock"), Op("transaction")>> \o
        TryExcept(queue__apply(k) \o <<Op("tr_close"), Op("save_dirty")>>,
                  <<Op("tr_abort"), Op("invalidate")>>),
        <<Op("tr_release"), Op("unlock"), Op("wunlock"), Op("removeundo")>>)

\* queue.push
queue_push(k) ==
    <<Op("wlock")>> \o
    TryFinally(<<Op("push_check")>> \o queue_apply(k), <<Op("wunlock")>>)

\* a faulty queue.strip: the store lock is taken before wlock
queue_strip_lockfirst(mode) ==
    TryFinally(<<Op("lock"), Op("wlock"), Op("removeundo"),
                 OpB("repair_strip", mode), Op("removeundo")>>,
               <<Op("unlock"), Op("wunlock")>>)

\* a faulty queue.strip: the locks are released after the strip, without
\* try and finally
queue_strip_nofinally(mode) ==
    <<Op("wlock"), Op("lock"), Op("removeundo"), OpB("repair_strip", mode),
      Op("removeundo"), Op("unlock"), Op("wunlock")>>

\* queue.strip
queue_strip(mode) ==
    TryFinally(<<Op("wlock"), Op("lock"), Op("removeundo"),
                 OpB("repair_strip", mode), Op("removeundo")>>,
               <<Op("unlock"), Op("wunlock")>>)

\* queue.pop, then the save_dirty of the qpop command
queue_pop ==
    <<Op("wlock")>> \o
    TryFinally(<<Op("pop_select")>> \o queue_strip("strip"), <<Op("wunlock")>>)
    \o <<Op("save_dirty")>>

\* queue.refresh, then the save_dirty of the qrefresh command
queue_refresh ==
    <<Op("refresh_check"), Op("wlock")>> \o
    TryFinally(<<Op("refresh_pop")>> \o queue_strip("strip") \o
               TryExcept(localrepo_commit \o <<Op("applied_append")>>,
                         <<Op("save_dirty")>>),
               <<Op("wunlock"), Op("removeundo")>>)
    \o <<Op("save_dirty")>>

\* a faulty option handling: the partial bundle is the default
backupmode_partial(opt) == IF opt = "no_backup" THEN "none" ELSE "strip"

\* the backup mode the strip command derives from its options: --backup
\* ("backup"), --no-backup ("no_backup"), or neither ("")
backupmode(opt) ==
    IF opt = "backup" THEN "strip"
    ELSE IF opt = "no_backup" THEN "none"
    ELSE "all"

\* the strip command of mq
strip(opt) == <<Op("strip_revs")>> \o queue_strip(backupmode(opt))

\* the qclone command, from the strip of the destination on
clone == <<Op("clone_qbase")>> \o queue_strip("None")

\* commands.import_ of k patches
RECURSIVE tryone(_)
tryone(k) ==
    IF k = 0 THEN <<>>
    ELSE localrepo_commit \o <<Op("exact_check")>> \o tryone(k - 1)

\* a faulty import_: "lock = repo.lock()" before "wlock = repo.wlock()"
import_lockfirst(k) ==
    TryFinally(<<Op("lock"), Op("wlock")>> \o tryone(k),
               <<Op("wunlock"), Op("unlock")>>)

import_(k) ==
    TryFinally(<<Op("wlock"), Op("lock")>> \o tryone(k),
               <<Op("unlock"), Op("wunlock")>>)

\* a faulty unbundle: postincoming (the update) inside the try block, the
\* store lock still held
unbundle_holding(k) ==
    <<Op("lock")>> \o
    TryFinally(addchangegroup(k) \o <<Op("wlock")>> \o
               TryFinally(<<Op("update")>>, <<Op("wunlock")>>),
               <<Op("unlock")>>)

\* commands.unbundle of one bundle of k changesets, with --update
unbundle(k) ==
    <<Op("lock")>> \o TryFinally(addchangegroup(k), <<Op("unlock")>>) \o
    <<Op("wlock")>> \o TryFinally(<<Op("update")>>, <<Op("wunlock")>>)

\* commands.rollback with the keyword extension: kwrepo.rollback
kwrepo_rollback ==
    <<Op("wlock")>> \o TryFinally(localrepo_rollback, <<Op("wunlock")>>)

\* commands.recover
recover ==
    <<Op("lock")>> \o TryFinally(<<Op("recover")>>, <<Op("unlock")>>) \o
    <<Op("verify")>>

\* commands.copy: wlock without waiting, around cmdutil.copy
copy ==
    <<Op("wlock_nowait")>> \o TryFinally(<<Op("copy")>>, <<Op("wunlock")>>)

\* the backup options of the strip command
StripOpts == {"", "backup", "no_backup"}

Batches == 1..MaxBatch

NoArg == [k |-> 0, b |-> ""]

Program(cmd, arg) ==
    CASE cmd = "commit" -> commands_commit
      [] cmd = "qpush" -> queue_push(arg.k)
      [] cmd = "qpop" -> queue_pop
      [] cmd = "qrefresh" -> queue_refresh
      [] cmd = "strip" -> strip(arg.b)
      [] cmd = "qclone" -> clone
      [] cmd = "import" -> import_(arg.k)
      [] cmd = "unbundle" -> unbundle(arg.k)
      [] cmd = "rollback" -> kwrepo_rollback
      [] cmd = "recover" -> recover
      [] cmd = "copy" -> copy
      [] OTHER -> <<>>

\* the argument sets of the commands
Args(cmd) ==
    CASE cmd \in {"qpush", "import", "unbundle"} ->
             {[k |-> k, b |-> ""] : k \in Batches}
      [] cmd = "strip" -> {[k |-> 0, b |-> o] : o \in StripOpts}
      [] OTHER -> {NoArg}

Commands == {"commit", "qpush", "qpop", "qrefresh", "strip", "qclone",
             "import", "unbundle", "rollback", "recover"}

\* the commands of the processes that meet at the locks
LockCommands == {"qpush", "qrefresh", "unbundle", "copy"}

\* ------------------------------------------------------- the interpreter
NoTr == [count |-> 0, usages |-> 0]

\* The record of a process that runs no command.  Of a running process: cmd,
\* arg and pc say where it is; rpos and exc, where and with what it left the
\* normal flow (0: it did not); w and l, how often it holds wlock and the store
\* lock; tr, its transaction object; q, the applied stack of its queue object;
\* cache, the changelog length its repository object caches; rev, the
\* changeset it created or is to strip; inst, the errno and the locker of
\* the LockHeld it caught.
NoInst == [errno |-> "", locker |-> 0]

Idle ==
    [cmd |-> "idle", arg |-> NoArg, pc |-> 0, rpos |-> 0, exc |-> "none",
     w |-> 0, l |-> 0, tr |-> NoTr, q |-> <<>>, cache |-> -1,
     rev |-> 0, inst |-> NoInst]

\* the programs of all commands
Programs ==
    [cmd \in Commands \cup LockCommands |->
       [arg \in Args(cmd) |-> Program(cmd, arg)]]

ProgOf(r) == Programs[r.cmd][r.arg]

Prog(p) == ProgOf(ps[p])

Cur(p) == Prog(p)[ps[p].pc]

At(p, o) == ps[p].cmd # "idle" /\ Cur(p).op = o

\* Does the operation at position j run, given that an exception (or an early
\* return) left the normal flow at position rpos (0: the normal flow)?
Applicable(o, j, rpos, exc) ==
    IF rpos = 0 THEN o.tag # "x"
    ELSE /\ j - o.back <= rpos
         /\ IF exc = "return0" \/ exc = "return1" THEN o.tag = "f"
            ELSE o.tag # "n"

NextIdx(prog, from, rpos, exc) ==
    LET js == {j \in from..Len(prog) : Applicable(prog[j], j, rpos, exc)}
    IN  IF js = {} THEN 0 ELSE CHOOSE j \in js : \A i \in js : j <= i

\* Operations that touch nothing but the memory of the process: taking a lock
\* it holds already and giving back all but the last hold of it, the nested
\* scopes of its transaction, its caches and its queue object.
IsLocal(r, o) ==
    CASE o.op \in {"wlock", "wlock_nowait"} -> r.w > 0
      [] o.op = "lock" -> r.l > 0
      [] o.op = "wunlock" -> r.w # 1
      [] o.op = "unlock" -> r.l # 1
      [] o.op = "transaction" -> r.tr.count > 0
      [] o.op = "tr_close" -> r.tr.count > 1
      [] o.op = "tr_release" -> ~(r.tr.count > 0 /\ r.tr.usages = 1)
      [] o.op = "tr_abort" -> r.tr.count = 0
      [] o.op \in {"invalidate", "applied_append", "update", "copy"} -> TRUE
      [] OTHER -> FALSE

\* lock.release of a lock that may be None: one hold less, if any
released(n) == IF n > 0 THEN n - 1 ELSE 0

\* transaction.nest
nested(t) == [count |-> t.count + 1, usages |-> t.usages + 1]

\* The process after a local operation: repo.wlock() and repo.lock() of a held
\* lock, release, transaction.nest, the close and release of a nested scope,
\* repo.invalidate(), self.applied.append(statusentry(n, patchname)), and
\* hg.update (the working directory is not modelled).
Local(r, o) ==
    CASE o.op \in {"wlock", "wlock_nowait"} -> [r EXCEPT !.w = @ + 1]
      [] o.op = "lock" -> [r EXCEPT !.l = @ + 1]
      [] o.op = "wunlock" -> [r EXCEPT !.w = released(@)]
      [] o.op = "unlock" -> [r EXCEPT !.l = released(@)]
      [] o.op = "transaction" -> [r EXCEPT !.tr = nested(@)]
      [] o.op = "tr_close" -> [r EXCEPT !.tr.count = @ - 1]
      [] o.op = "tr_release" ->
             [r EXCEPT !.tr.usages = IF r.tr.count > 0 THEN @ - 1 ELSE @]
      [] o.op = "tr_abort" -> [r EXCEPT !.tr = NoTr]
      [] o.op = "invalidate" -> [r EXCEPT !.cache = -1]
      [] o.op = "applied_append" -> [r EXCEPT !.q = Append(@, r.rev)]
      [] OTHER -> r

\* The process runs on through its local operations; at the end of the
\* program dispatch returns.
RECURSIVE Settle(_)
Settle(r) ==
    IF r.pc = 0 THEN Idle
    ELSE LET o == ProgOf(r)[r.pc] IN
         IF IsLocal(r, o)
         THEN Settle([Local(r, o) EXCEPT
                         !.pc = NextIdx(ProgOf(r), r.pc + 1, r.rpos, r.exc)])
         ELSE r

\* p after its current operation: at the next operation that runs.
Moved(p, rpos, exc) ==
    [ps[p] EXCEPT !.pc = NextIdx(Prog(p), ps[p].pc + 1, rpos, exc),
                  !.rpos = rpos, !.exc = exc]

\* p after its current operation in the flow it is in.
Adv(p) == Moved(p, ps[p].rpos, ps[p].exc)

\* p after its current operation raised exc (or returned early).
Raised(p, exc) == Moved(p, ps[p].pc, exc)

Set(p, r) == ps' = [ps EXCEPT ![p] = Settle(r)] /\ UNCHANGED aux

wheld == [p \in Procs |-> ps[p].w]

lheld == [p \in Procs |-> ps[p].l]

\* ------------------------------------------------------------ the locks
\* lock.lock.trylock: the lock file can be created when no other process
\* holds the lock
trylock(held, p) == \A o \in Procs \ {p} : held[o] = 0

\* repo.wlock()
repo_wlock(p) ==
    /\ At(p, "wlock")
    /\ trylock(wheld, p)
    /\ Set(p, [Adv(p) EXCEPT !.w = @ + 1])
    /\ UNCHANGED <<cl, mf, fl, journal, undo, nextid, applied, backups,
                   txpre, rd>>

\* repo.lock()
repo_lock(p) ==
    /\ At(p, "lock")
    /\ trylock(lheld, p)
    /\ Set(p, [Adv(p) EXCEPT !.l = @ + 1])
    /\ UNCHANGED <<cl, mf, fl, journal, undo, nextid, applied, backups,
                   txpre, rd>>

\* the lock p is about to acquire is held by another process
Blocked(p) ==
    \/ At(p, "wlock") /\ ~trylock(wheld, p)
    \/ At(p, "lock") /\ ~trylock(lheld, p)

\* a faulty timeout: the held lock is taken for a stale one and broken
lock_broken(p) ==
    /\ Blocked(p)
    /\ Set(p, [Adv(p) EXCEPT !.w = IF At(p, "wlock") THEN @ + 1 ELSE @,
                             !.l = IF At(p, "lock") THEN @ + 1 ELSE @])
    /\ UNCHANGED <<cl, mf, fl, journal, undo, nextid, applied, backups,
                   txpre, rd>>

\* the process whose lock file p finds
locker(p) ==
    CHOOSE o \in Procs \ {p} :
       IF At(p, "lock") THEN lheld[o] > 0 ELSE wheld[o] > 0

\* error.LockHeld(errno, filename, desc, locker), raised by p
LockHeld(p, errno) ==
    [Raised(p, "LockHeld") EXCEPT
        !.inst = [errno |-> errno, locker |-> locker(p)]]

\* lock.lock.lock: the lock is still held when the timeout is used up,
\* LockHeld(ETIMEDOUT, locker)
lock_timeout(p) ==
    /\ Blocked(p)
    /\ Set(p, LockHeld(p, "ETIMEDOUT"))
    /\ UNCHANGED <<cl, mf, fl, journal, undo, nextid, applied, backups,
                   txpre, rd>>

\* repo.wlock(False): the lock is taken, or LockHeld(EAGAIN, locker) is
\* raised at once
wlock_nowait(p) ==
    /\ At(p, "wlock_nowait")
    /\ IF trylock(wheld, p)
       THEN Set(p, [Adv(p) EXCEPT !.w = @ + 1])
       ELSE Set(p, LockHeld(p, "EAGAIN"))
    /\ UNCHANGED <<cl, mf, fl, journal, undo, nextid, applied, backups,
                   txpre, rd>>

\* wlock.release() of the last hold: the lock file is removed
wlock_release(p) ==
    /\ At(p, "wunlock")
    /\ Set(p, [Adv(p) EXCEPT !.w = released(@)])
    /\ UNCHANGED <<cl, mf, fl, journal, undo, nextid, applied, backups,
                   txpre, rd>>

\* lock.release() of the last hold: the lock file is removed
lock_release(p) ==
    /\ At(p, "unlock")
    /\ Set(p, [Adv(p) EXCEPT !.l = released(@)])
    /\ UNCHANGED <<cl, mf, fl, journal, undo, nextid, applied, backups,
                   txpre, rd>>

\* ------------------------------------------------- journal and transaction
NoJournal == [on |-> FALSE, cl |-> -1, mf |-> -1, fl |-> -1]

NoStore == [cl |-> <<>>, mf |-> <<>>, fl |-> <<>>]

\* transaction.add: the length of a file before its first append
Noted(j, len) == IF j = -1 THEN len ELSE j

\* a faulty playback: a file that is not in the journal is emptied
Emptied(s, n) == IF n = -1 THEN <<>> ELSE Prefix(s, n)

\* the file after the truncation to its journaled length (-1: not journaled)
Truncated(s, n) == IF n = -1 THEN s ELSE Prefix(s, n)

\* the reader after a step that leaves the store files as c, m, f
rdAfter(c, m, f) ==
    IF rd.pc = "reading" /\
       (Len(c) < Len(cl) \/ Len(m) < Len(mf) \/ Len(f) < Len(fl))
    THEN [rd EXCEPT !.trunc = TRUE] ELSE rd

\* transaction._abort / transaction.rollback: every file of journal j is
\* truncated to its recorded length
playback(j) ==
    /\ cl' = Truncated(cl, j.cl)
    /\ mf' = Truncated(mf, j.mf)
    /\ fl' = Truncated(fl, j.fl)
    /\ rd' = rdAfter(Truncated(cl, j.cl), Truncated(mf, j.mf),
                     Truncated(fl, j.fl))

\* repo.transaction(): refuses when an abandoned journal is found, else
\* starts the journal
repo_transaction(p) ==
    /\ At(p, "transaction")
    /\ IF journal.on
       THEN /\ Set(p, Raised(p, "RepoError"))
            /\ UNCHANGED <<journal, txpre>>
       ELSE /\ journal' = [NoJournal EXCEPT !.on = TRUE]
            /\ txpre' = store
            /\ Set(p, [Adv(p) EXCEPT !.tr = [count |-> 1, usages |-> 1]])
    /\ UNCHANGED <<cl, mf, fl, undo, nextid, applied, backups, rd>>

\* the changesets nextid .. nextid + n - 1
NewIds(n) == [i \in 1..n |-> nextid + i - 1]

\* filelog.add through the transaction
filelog_add(p) ==
    /\ At(p, "filelog_add")
    /\ nextid + Cur(p).n - 1 <= MaxId
    /\ fl' = fl \o NewIds(Cur(p).n)
    /\ journal' = [journal EXCEPT !.fl = Noted(@, Len(fl))]
    /\ Set(p, Adv(p))
    /\ UNCHANGED <<cl, mf, undo, nextid, applied, backups, txpre, rd>>

\* manifest.add through the transaction
manifest_add(p) ==
    /\ At(p, "manifest_add")
    /\ nextid + Cur(p).n - 1 <= MaxId
    /\ mf' = mf \o NewIds(Cur(p).n)
    /\ journal' = [journal EXCEPT !.mf = Noted(@, Len(mf))]
    /\ Set(p, Adv(p))
    /\ UNCHANGED <<cl, fl, undo, nextid, applied, backups, txpre, rd>>

\* changelog.add through the transaction; the repository object now caches
\* the longer changelog
changelog_add(p) ==
    /\ At(p, "changelog_add")
    /\ nextid + Cur(p).n - 1 <= MaxId
    /\ cl' = cl \o NewIds(Cur(p).n)
    /\ journal' = [journal EXCEPT !.cl = Noted(@, Len(cl))]
    /\ nextid' = nextid + Cur(p).n
    /\ Set(p, [Adv(p) EXCEPT !.rev = nextid + Cur(p).n - 1,
                             !.cache = Len(cl) + Cur(p).n])
    /\ UNCHANGED <<mf, fl, undo, applied, backups, txpre, rd>>

\* transaction.close of the outermost scope: the journal becomes the undo
\* file, and the changesets of the transaction are committed
tr_close(p) ==
    /\ At(p, "tr_close")
    /\ undo' = journal
    /\ journal' = NoJournal
    /\ txpre' = NoStore
    /\ Set(p, [Adv(p) EXCEPT !.tr.count = 0])
    /\ UNCHANGED <<cl, mf, fl, nextid, applied, backups, rd>>

\* transaction.release of the last scope of a transaction that was not
\* closed: the transaction is aborted
tr_release(p) ==
    /\ At(p, "tr_release")
    /\ playback(journal)
    /\ journal' = NoJournal
    /\ txpre' = NoStore
    /\ Set(p, [Adv(p) EXCEPT !.tr = NoTr])
    /\ UNCHANGED <<undo, nextid, applied, backups>>

\* transaction.abort of a running transaction
tr_abort(p) ==
    /\ At(p, "tr_abort")
    /\ playback(journal)
    /\ journal' = NoJournal
    /\ txpre' = NoStore
    /\ Set(p, [Adv(p) EXCEPT !.tr = NoTr])
    /\ UNCHANGED <<undo, nextid, applied, backups>>

\* -------------------------------------------------------------------- mq
Last(s) == s[Len(s)]

\* queue.push up to the call of queue.apply: the queue object reads the
\* status file at the first use of self.applied
push_check(p) ==
    /\ At(p, "push_check")
    /\ Set(p, [Adv(p) EXCEPT !.q = applied])
    /\ UNCHANGED <<cl, mf, fl, journal, undo, nextid, applied, backups,
                   txpre, rd>>

\* queue.removeundo
removeundo(p) ==
    /\ At(p, "removeundo")
    /\ undo' = NoJournal
    /\ Set(p, Adv(p))
    /\ UNCHANGED <<cl, mf, fl, journal, nextid, applied, backups, txpre,
                   rd>>

\* queue.save_dirty: the applied stack is written to the status file
save_dirty(p) ==
    /\ At(p, "save_dirty")
    /\ applied' = ps[p].q
    /\ Set(p, Adv(p))
    /\ UNCHANGED <<cl, mf, fl, journal, undo, nextid, backups, txpre,
                   rd>>

\* queue.pop up to "del self.applied[start:end]": nothing applied returns 1;
\* the entries from start on are popped when the first of them is a known
\* changeset whose only head is the top of the stack
pop_select(p) ==
    /\ At(p, "pop_select")
    /\ LET q == applied IN
       IF q = <<>> THEN Set(p, Raised(p, "return1"))
       ELSE \E start \in 1..Len(q) :
              IF q[start] \notin Range(cl) \/ Last(cl) # Last(q)
              THEN Set(p, Raised(p, "Abort"))
              ELSE Set(p, [Adv(p) EXCEPT !.q = SubSeq(q, 1, start - 1),
                                           !.rev = q[start]])
    /\ UNCHANGED <<cl, mf, fl, journal, undo, nextid, applied, backups,
                   txpre, rd>>

\* queue.refresh before wlock: nothing applied returns 1
refresh_check(p) ==
    /\ At(p, "refresh_check")
    /\ IF applied = <<>> THEN Set(p, Raised(p, "return1"))
       ELSE Set(p, [Adv(p) EXCEPT !.q = applied])
    /\ UNCHANGED <<cl, mf, fl, journal, undo, nextid, applied, backups,
                   txpre, rd>>

\* queue.refresh up to "self.applied.pop()": the top patch must be the tip
refresh_pop(p) ==
    /\ At(p, "refresh_pop")
    /\ LET q == ps[p].q IN
       IF cl = <<>> \/ Last(cl) # Last(q)
       THEN Set(p, Raised(p, "Abort"))
       ELSE Set(p, [Adv(p) EXCEPT !.q = SubSeq(q, 1, Len(q) - 1),
                                    !.rev = Last(q)])
    /\ UNCHANGED <<cl, mf, fl, journal, undo, nextid, applied, backups,
                   txpre, rd>>

\* the applied stack after the strip command strips changeset r: when qtip is
\* stripped, the entries from the stripped root on (or all) are dropped
stripapplied(q, r) ==
    IF q # <<>> /\ Last(q) >= r
    THEN IF \E i \in 1..Len(q) : q[i] = r
         THEN SubSeq(q, 1, (CHOOSE i \in 1..Len(q) : q[i] = r) - 1)
         ELSE <<>>
    ELSE q

\* the strip command up to the call of queue.strip: the revision is looked
\* up, qtip is looked up, and the applied stack is refreshed and saved
strip_revs(p) ==
    /\ At(p, "strip_revs")
    /\ LET q == applied IN
       IF cl = <<>> \/ (q # <<>> /\ Last(q) \notin Range(cl))
       THEN /\ Set(p, Raised(p, "Abort"))
            /\ UNCHANGED applied
       ELSE \E r \in Range(cl) :
              /\ Set(p, [Adv(p) EXCEPT !.q = stripapplied(q, r), !.rev = r])
              /\ applied' = stripapplied(q, r)
    /\ UNCHANGED <<cl, mf, fl, journal, undo, nextid, backups, txpre,
                   rd>>

\* qclone: qbase is the first applied patch; without one nothing is stripped
clone_qbase(p) ==
    /\ At(p, "clone_qbase")
    /\ IF applied = <<>> THEN Set(p, Raised(p, "return0"))
       ELSE Set(p, [Adv(p) EXCEPT !.q = applied, !.rev = applied[1]])
    /\ UNCHANGED <<cl, mf, fl, journal, undo, nextid, applied, backups,
                   txpre, rd>>

\* ------------------------------------------- strip, rollback and recovery
\* revlog.strip: the revisions of changeset r and of every later changeset
\* are cut off
Strip(s, r) == SelectSeq(s, LAMBDA x : x < r)

\* is a bundle of the stripped changesets kept?  Only backup "all" keeps
\* one: "strip" bundles the changesets that are not stripped, and
\* --no-backup ("none") and qclone (None) keep no bundle
keepbundle(mode) == mode = "all"

\* repair.strip(ui, repo, rev, backup), in its own transaction "strip"
repair_strip(p) ==
    /\ At(p, "repair_strip")
    /\ IF ps[p].rev \notin Range(cl)
       THEN /\ Set(p, Raised(p, "Abort"))
            /\ UNCHANGED <<cl, mf, fl, undo, backups, rd>>
       ELSE IF journal.on
       THEN /\ Set(p, Raised(p, "RepoError"))
            /\ UNCHANGED <<cl, mf, fl, undo, backups, rd>>
       ELSE LET r == ps[p].rev
                gone == {c \in Range(cl) : c >= r}
            IN  /\ cl' = Strip(cl, r)
                /\ mf' = Strip(mf, r)
                /\ fl' = Strip(fl, r)
                /\ rd' = rdAfter(Strip(cl, r), Strip(mf, r), Strip(fl, r))
                /\ undo' = [on |-> TRUE, cl |-> Len(Strip(cl, r)),
                            mf |-> Len(Strip(mf, r)), fl |-> Len(Strip(fl, r))]
                /\ backups' = IF keepbundle(Cur(p).b)
                              THEN backups \cup gone ELSE backups
                /\ Set(p, [Adv(p) EXCEPT !.cache = -1])
    /\ UNCHANGED <<journal, nextid, applied, txpre>>

\* localrepo.rollback under its locks: the undo journal is played back;
\* without one, "no rollback information available" and return 1
repo_rollback(p) ==
    /\ At(p, "rollback")
    /\ IF undo.on
       THEN /\ playback(undo)
            /\ undo' = NoJournal
            /\ Set(p, [Adv(p) EXCEPT !.cache = -1])
       ELSE /\ Set(p, Raised(p, "return1"))
            /\ UNCHANGED <<cl, mf, fl, undo, rd>>
    /\ UNCHANGED <<journal, nextid, applied, backups, txpre>>

\* a faulty recover: the journal is removed and nothing is played back
recover_unlink(p) ==
    /\ At(p, "recover")
    /\ IF journal.on
       THEN /\ journal' = NoJournal
            /\ txpre' = NoStore
            /\ Set(p, [Adv(p) EXCEPT !.cache = -1])
       ELSE /\ Set(p, Raised(p, "return1"))
            /\ UNCHANGED <<journal, txpre>>
    /\ UNCHANGED <<cl, mf, fl, rd, undo, nextid, applied, backups>>

\* localrepo.recover under the store lock: an abandoned journal is played
\* back; without one, "no interrupted transaction available" and return 1
repo_recover(p) ==
    /\ At(p, "recover")
    /\ IF journal.on
       THEN /\ playback(journal)
            /\ journal' = NoJournal
            /\ txpre' = NoStore
            /\ Set(p, [Adv(p) EXCEPT !.cache = -1])
       ELSE /\ Set(p, Raised(p, "return1"))
            /\ UNCHANGED <<cl, mf, fl, journal, txpre, rd>>
    /\ UNCHANGED <<undo, nextid, applied, backups>>

\* what hg.verify checks of the three revlogs: every changeset has its
\* manifest and file revisions, and every manifest and file revision
\* belongs to a changeset
Clean(c, m, f) ==
    /\ Range(c) \subseteq Range(m) /\ Range(c) \subseteq Range(f)
    /\ Range(m) \subseteq Range(c) /\ Range(f) \subseteq Range(c)

\* hg.verify(repo), whose result recover returns
hg_verify(p) ==
    /\ At(p, "verify")
    /\ IF Clean(cl, mf, fl) THEN Set(p, Adv(p))
       ELSE Set(p, Raised(p, "return1"))
    /\ UNCHANGED <<cl, mf, fl, journal, undo, nextid, applied, backups,
                   txpre, rd>>

\* import_.tryone after the commit: without --exact, or with the recorded
\* node, the patch is done
exact_check(p) ==
    /\ At(p, "exact_check")
    /\ Set(p, Adv(p))
    /\ UNCHANGED <<cl, mf, fl, journal, undo, nextid, applied, backups,
                   txpre, rd>>

\* import_.tryone with --exact and another node than the recorded one:
\* repo.rollback() (both locks are held), then Abort
exact_mismatch(p) ==
    /\ At(p, "exact_check")
    /\ undo.on
    /\ playback(undo)
    /\ undo' = NoJournal
    /\ Set(p, [Raised(p, "Abort") EXCEPT !.cache = -1])
    /\ UNCHANGED <<journal, nextid, applied, backups, txpre>>

\* ----------------------------------------- commands, failures, the reader
\* how many changesets a command creates
Creates(cmd, arg) ==
    CASE cmd \in {"qpush", "import", "unbundle"} -> arg.k
      [] cmd \in {"commit", "qrefresh"} -> 1
      [] OTHER -> 0

\* dispatch._dispatch: a process starts one of the commands
dispatching(p, cmds) ==
    /\ ps[p].cmd = "idle"
    /\ \E cmd \in cmds : \E arg \in Args(cmd) :
         /\ nextid + Creates(cmd, arg) - 1 <= MaxId
         /\ Set(p, [Idle EXCEPT !.cmd = cmd, !.arg = arg, !.pc = 1])
    /\ UNCHANGED <<cl, mf, fl, journal, undo, nextid, applied, backups,
                   txpre, rd>>

dispatch(p) == dispatching(p, Commands)

\* dispatch._runcatch with a success in place of the LockHeld clause
runcatch_caught(exc, inst) ==
    [code |-> IF exc \in {"none", "return0", "LockHeld"} THEN 0
              ELSE IF exc = "return1" THEN 1 ELSE -1,
     reason |-> "", locker |-> 0]

\* dispatch._runcatch: what dispatch returns and the warning it writes when
\* the command ends with exc
runcatch(exc, inst) ==
    CASE exc = "LockHeld" ->
           [code |-> -1,
            reason |-> IF inst.errno = "ETIMEDOUT"
                       THEN "timed out waiting for lock held by"
                       ELSE "lock held by",
            locker |-> inst.locker]
      [] exc \in {"none", "return0"} -> [code |-> 0, reason |-> "", locker |-> 0]
      [] exc = "return1" -> [code |-> 1, reason |-> "", locker |-> 0]
      [] OTHER -> [code |-> -1, reason |-> "", locker |-> 0]

\* the operations of a transaction that can fail: I/O errors, a patch that
\* cannot be committed, a pretxncommit or pretxnchangegroup hook
RaiseOps == {"filelog_add", "manifest_add", "changelog_add", "tr_close"}

\* something raises in place of the operation
raise(p) ==
    /\ ps[p].cmd # "idle"
    /\ ps[p].rpos = 0
    /\ Cur(p).op \in RaiseOps
    /\ Set(p, Raised(p, "Abort"))
    /\ UNCHANGED <<cl, mf, fl, journal, undo, nextid, applied, backups,
                   txpre, rd>>

\* the process is killed inside its transaction: the journal stays, its
\* locks are those of a dead process and are broken
crash(p) ==
    /\ ps[p].cmd # "idle"
    /\ ps[p].rpos = 0
    /\ Cur(p).op \in RaiseOps
    /\ ps[p].tr.count > 0
    /\ ps' = [ps EXCEPT ![p] = Idle]
    /\ UNCHANGED <<cl, mf, fl, journal, undo, nextid, applied, backups,
                   txpre, rd, aux>>

\* a reader opens the changelog index without any lock
read_changelog ==
    /\ rd.pc = "idle"
    /\ rd' = [pc |-> "reading", snap |-> cl, res |-> "none", trunc |-> FALSE]
    /\ UNCHANGED <<ps, cl, mf, fl, journal, undo, nextid, applied, backups,
                   txpre, aux>>

\* the reader reads the manifest and file revisions of the changesets it saw
read_revisions ==
    /\ rd.pc = "reading"
    /\ rd' = [rd EXCEPT !.pc = "idle", !.snap = <<>>,
                        !.res = IF Range(rd.snap) \subseteq Range(mf) /\
                                   Range(rd.snap) \subseteq Range(fl)
                                THEN "ok" ELSE "failed"]
    /\ UNCHANGED <<ps, cl, mf, fl, journal, undo, nextid, applied, backups,
                   txpre, aux>>

\* ------------------------------------------------------------ the acl hook
\* hgext/acl.py: the hook that checks the changesets of a pending
\* transaction against the four sections of the configuration.
Branches == {"default", "stable"}

\* the files a changeset may touch
Touched == {<<>>, <<"docs/a">>, <<"docs/a", "src/f">>}

\* the incoming changesets
Changesets == [branch : Branches, files : Touched]

\* the values of a configuration entry: '*', users, a group
UsersOrGroups == {<<"*">>, <<"bob", "alice">>, <<"bob">>, <<"@devs">>}

\* [acl.groups]
acl_groups == [g \in {"@devs"} |-> {"alice"}]

\* a section that is absent, empty, or has one entry
Sections(keys) ==
    {[present |-> FALSE, items |-> <<>>], [present |-> TRUE, items |-> <<>>]}
    \cup {[present |-> TRUE, items |-> <<[pat |-> k, users |-> u]>>] :
            k \in keys, u \in UsersOrGroups}

\* acl._getusers: the members of a group
getusers(group) == acl_groups[group]

\* acl._usermatch
usermatch(user, usersorgroups) ==
    \/ usersorgroups = <<"*">>
    \/ \E i \in 1..Len(usersorgroups) :
          LET ug == usersorgroups[i]
          IN  \/ user = ug
              \/ ug \in DOMAIN acl_groups /\ user \in getusers(ug)

\* match.match with a glob pattern
glob(pat, f) == pat = "**" \/ (pat = "docs/**" /\ f = "docs/a")

\* acl.buildmatch treating a section without an entry for the user as absent
buildmatch_emptyabsent(user, section, branches) ==
    LET pats == SelectSeq(section.items,
                          LAMBDA e : usermatch(user, e.users))
    IN  IF ~section.present \/ pats = <<>>
        THEN [enabled |-> FALSE, branches |-> branches, pats |-> <<>>]
        ELSE [enabled |-> TRUE, branches |-> branches,
              pats |-> [i \in 1..Len(pats) |-> pats[i].pat]]

\* acl.buildmatch: nothing for an absent section, else the matcher of the
\* patterns of the entries of the user
buildmatch(user, section, branches) ==
    LET pats == SelectSeq(section.items,
                          LAMBDA e : usermatch(user, e.users))
    IN  IF ~section.present
        THEN [enabled |-> FALSE, branches |-> branches, pats |-> <<>>]
        ELSE [enabled |-> TRUE, branches |-> branches,
              pats |-> [i \in 1..Len(pats) |-> pats[i].pat]]

\* the matcher built by buildmatch, applied to a branch or to a file
applies(m, x) ==
    IF m.branches
    THEN \E i \in 1..Len(m.pats) : m.pats[i] = "*" \/ m.pats[i] = x
    ELSE \E i \in 1..Len(m.pats) : glob(m.pats[i], x)

\* acl.hook, the loop over the files of a changeset from the i-th on
RECURSIVE checkfiles(_, _, _, _)
checkfiles(files, i, allow, deny) ==
    IF i > Len(files) THEN "None"
    ELSE IF deny.enabled /\ applies(deny, files[i]) THEN "Abort"
    ELSE IF allow.enabled /\ ~applies(allow, files[i]) THEN "Abort"
    ELSE checkfiles(files, i + 1, allow, deny)

\* acl.hook, the loop over the changesets from rev on
RECURSIVE checkrevs(_, _, _)
checkrevs(log, rev, m) ==
    IF rev > Len(log) THEN "None"
    ELSE IF m.denybranches.enabled /\
            applies(m.denybranches, log[rev].branch) THEN "Abort"
    ELSE IF m.allowbranches.enabled /\
            ~applies(m.allowbranches, log[rev].branch) THEN "Abort"
    ELSE IF checkfiles(log[rev].files, 1, m.allow, m.deny) = "Abort"
         THEN "Abort"
    ELSE checkrevs(log, rev + 1, m)

\* acl.hook looking at the first changeset only
hook_firstonly(cfg, user, hooktype, source, log, node) ==
    IF hooktype \notin {"pretxnchangegroup", "pretxncommit"} THEN "Abort"
    ELSE IF hooktype = "pretxnchangegroup" /\ source \notin cfg.sources
         THEN "None"
    ELSE checkrevs(SubSeq(log, 1, node), node,
                   [allowbranches |-> buildmatch(user, cfg.allowbranches, TRUE),
                    denybranches |-> buildmatch(user, cfg.denybranches, TRUE),
                    allow |-> buildmatch(user, cfg.allow, FALSE),
                    deny |-> buildmatch(user, cfg.deny, FALSE)])

\* acl.hook: "Abort" when it raises, "None" when it lets the changesets of
\* the changelog from node on pass
hook(cfg, user, hooktype, source, log, node) ==
    IF hooktype \notin {"pretxnchangegroup", "pretxncommit"} THEN "Abort"
    ELSE IF hooktype = "pretxnchangegroup" /\ source \notin cfg.sources
         THEN "None"
    ELSE checkrevs(log, node,
                   [allowbranches |-> buildmatch(user, cfg.allowbranches, TRUE),
                    denybranches |-> buildmatch(user, cfg.denybranches, TRUE),
                    allow |-> buildmatch(user, cfg.allow, FALSE),
                    deny |-> buildmatch(user, cfg.deny, FALSE)])

\* the configurations of the hook
Configs ==
    [sources : {{"serve"}},
     allowbranches : Sections({"*", "stable"}),
     denybranches : Sections({"*", "stable"}),
     allow : Sections({"docs/**"}),
     deny : Sections({"docs/**"})]

\* any configuration, the user the hook runs as, no changeset yet
AclInit ==
    acl \in [cfg : Configs, user : {"alice"}, log : {<<>>},
             hooktype : {""}, source : {""}, group : {<<>>}, res : {""}]

\* a transaction that adds the changesets of a changegroup, or the changeset
\* of a commit, to the changelog, runs the hook before it closes, and is
\* aborted when the hook raises
pretxn(hooktype, source, group) ==
    /\ acl.res = ""
    /\ hooktype = "pretxncommit" => Len(group) = 1 /\ source = ""
    /\ hooktype = "pretxnchangegroup" => source # ""
    /\ LET node == Len(acl.log) + 1
           log == acl.log \o group
           res == hook(acl.cfg, acl.user, hooktype, source, log, node)
       IN  acl' = [acl EXCEPT !.hooktype = hooktype, !.source = source,
                              !.group = group, !.res = res,
                              !.log = IF res = "Abort" THEN acl.log ELSE log]
    /\ UNCHANGED <<core, repo, gs, remote, queues, pk, oa>>

\* ------------------------------------------------------------ the guards
\* guards of one patch in the series file
MaxGuards == 2

GuardNames == {"g", "h"}

\* a guard of a patch, as the series file has it after '#': sign and name
PatchGuards == {"+", "-"} \X GuardNames

RECURSIVE SeqsUpTo(_, _)
SeqsUpTo(S, n) ==
    IF n = 0 THEN {<<>>}
    ELSE SeqsUpTo(S, n - 1) \cup
         {Append(t, x) : t \in {u \in SeqsUpTo(S, n - 1) : Len(u) = n - 1},
                         x \in S}

\* queue.pushable with the positive guards looked at first
pushable_posfirst(patchguards, guards) ==
    LET exactneg == SelectSeq(patchguards,
                              LAMBDA g : g[1] = "-" /\ g[2] \in guards)
        pos == SelectSeq(patchguards, LAMBDA g : g[1] = "+")
        exactpos == SelectSeq(pos, LAMBDA g : g[2] \in guards)
    IN  IF patchguards = <<>> THEN [ok |-> TRUE, why |-> <<>>]
        ELSE IF exactpos # <<>> THEN [ok |-> TRUE, why |-> <<exactpos[1]>>]
        ELSE IF exactneg # <<>> THEN [ok |-> FALSE, why |-> <<exactneg[1]>>]
        ELSE IF pos # <<>> THEN [ok |-> FALSE, why |-> pos]
        ELSE [ok |-> TRUE, why |-> <<>>]

\* queue.pushable: whether the patch with these guards can be pushed under
\* the active guards, and the guards that decide
pushable(patchguards, guards) ==
    LET exactneg == SelectSeq(patchguards,
                              LAMBDA g : g[1] = "-" /\ g[2] \in guards)
        pos == SelectSeq(patchguards, LAMBDA g : g[1] = "+")
        exactpos == SelectSeq(pos, LAMBDA g : g[2] \in guards)
    IN  IF patchguards = <<>> THEN [ok |-> TRUE, why |-> <<>>]
        ELSE IF exactneg # <<>> THEN [ok |-> FALSE, why |-> <<exactneg[1]>>]
        ELSE IF pos # <<>>
             THEN IF exactpos # <<>>
                  THEN [ok |-> TRUE, why |-> <<exactpos[1]>>]
                  ELSE [ok |-> FALSE, why |-> pos]
        ELSE [ok |-> TRUE, why |-> <<>>]

\* no call of pushable yet
NoAnswer == [ok |-> FALSE, why |-> <<>>, called |-> FALSE]

\* a patch with any guards under any active guards
GuardInit ==
    gs \in [patchguards : SeqsUpTo(PatchGuards, MaxGuards),
            active : SUBSET GuardNames,
            res : {NoAnswer}]

\* the queue is asked whether the patch is pushable
ask_pushable ==
    /\ ~gs.res.called
    /\ gs' = [gs EXCEPT !.res = [ok |-> pushable(gs.patchguards, gs.active).ok,
                                 why |-> pushable(gs.patchguards, gs.active).why,
                                 called |-> TRUE]]
    /\ UNCHANGED <<core, repo, acl, remote, queues, pk, oa>>

\* the guards of a patch are set: qguard
set_guards(guards) ==
    /\ gs' = [gs EXCEPT !.patchguards = guards, !.res = NoAnswer]
    /\ UNCHANGED <<core, repo, acl, remote, queues, pk, oa>>

\* the active guards are set: qselect
set_active(guards) ==
    /\ gs' = [gs EXCEPT !.active = guards, !.res = NoAnswer]
    /\ UNCHANGED <<core, repo, acl, remote, queues, pk, oa>>

\* ------------------------------------- the working directory of one user
\* The commands of one user, each run to its end before the next one: the
\* changesets with their parents and manifests, the dirstate, the
\* mergestate.
\* number of changesets a user ever creates
MaxNodes == 3

Nodes == 1..MaxNodes

\* the paths the user tracks, and the paths the user names in patterns
Paths == {"z"}

Files == {"x", "z"}

nullid == 0

\* repo[node].manifest(): the paths of a changeset; none for the null node
manifest(n) == IF n = nullid THEN {} ELSE ctxs[n].man

\* changelog.ancestors, the node included
RECURSIVE ancestors(_)
ancestors(n) ==
    IF n \notin DOMAIN ctxs THEN {}
    ELSE {n} \cup ancestors(ctxs[n].p1) \cup ancestors(ctxs[n].p2)

\* changelog.descendants, the nodes themselves included
descendants(S) == {n \in DOMAIN ctxs : ancestors(n) \cap S # {}}

\* changelog.heads
heads == {n \in DOMAIN ctxs :
            \A c \in DOMAIN ctxs : n \notin {ctxs[c].p1, ctxs[c].p2}}

\* dirstate.rebuild(parent, files): every path of the manifest normal
rebuild(n) == [p1 |-> n, p2 |-> nullid,
               map |-> [f \in Paths |->
                          IF f \in manifest(n) THEN "n" ELSE "?"]]

\* repo.status(): the paths the dirstate has as added, removed or merged
changes == {f \in Paths : dirstate.map[f] \in {"a", "r", "m"}}

\* the paths of the mergestate that are unresolved
unresolved == {f \in DOMAIN ms : ms[f] = "u"}

\* a parent of the working directory is unknown to the changelog: the
\* commands that look it up abort
unknown_parent ==
    ~({dirstate.p1, dirstate.p2} \subseteq DOMAIN ctxs \cup {nullid})

\* what a command returns to the user; -1 when it aborts
return(c, pats, code) == ret' = [cmd |-> c, pats |-> pats, code |-> code]

\* the end of a command whose result is of no interest
done == return("", {}, 0)

\* commands.add: an unknown path becomes added, a removed one tracked again
add(f) ==
    /\ dirstate.map[f] \in {"?", "r"}
    /\ dirstate' = [dirstate EXCEPT
                      !.map[f] = IF @ = "r" THEN "n" ELSE "a"]
    /\ done
    /\ UNCHANGED <<ctxs, nnodes, ms, mq, notrepo>>

\* commands.remove: an added path is forgotten, a path of the first parent
\* becomes removed
remove(f) ==
    /\ \/ dirstate.map[f] = "a"
       \/ dirstate.map[f] \in {"n", "m"} /\ f \in manifest(dirstate.p1)
    /\ dirstate' = [dirstate EXCEPT
                      !.map[f] = IF @ = "a" THEN "?" ELSE "r"]
    /\ done
    /\ UNCHANGED <<ctxs, nnodes, ms, mq, notrepo>>

\* mqrepo.abort_if_wdir_patched: the first parent is an applied patch
wdir_patched ==
    \E i \in 1..Len(mq.applied) : mq.applied[i].node = dirstate.p1

\* localrepo.commit(force): the new changeset has the parents of the
\* dirstate and the paths it tracks; the dirstate moves onto it and the
\* mergestate is cleared.  saved: the queue state its description holds.
committed(saved) ==
    LET n == nnodes + 1
        man == {f \in Paths : dirstate.map[f] \in {"n", "a", "m"}}
    IN  /\ nnodes' = n
        /\ ctxs' = ctxs @@ (n :> [p1 |-> dirstate.p1, p2 |-> dirstate.p2,
                                  man |-> man, saved |-> saved])
        /\ dirstate' = [p1 |-> n, p2 |-> nullid,
                        map |-> [f \in Paths |->
                                   IF f \in man THEN "n" ELSE "?"]]
        /\ ms' = <<>>

\* localrepo.commit with a description that holds no queue state
repo_commit == committed(<<>>)

\* commands.commit: refused over an applied patch and while a path is
\* unresolved; 1 when nothing changed, else 0
commit ==
    \E modified \in BOOLEAN :
       IF unknown_parent \/ wdir_patched \/ unresolved # {}
       THEN /\ return("commit", {}, -1)
            /\ UNCHANGED <<ctxs, nnodes, dirstate, ms, mq, notrepo>>
       ELSE IF dirstate.p2 = nullid /\ changes = {} /\ ~modified
       THEN /\ return("commit", {}, 1)
            /\ UNCHANGED <<ctxs, nnodes, dirstate, ms, mq, notrepo>>
       ELSE /\ nnodes < MaxNodes
            /\ repo_commit
            /\ return("commit", {}, 0)
            /\ UNCHANGED <<mq, notrepo>>

\* commands.update(clean=True): the working directory becomes the revision
update(node) ==
    /\ node \in DOMAIN ctxs \cup {nullid}
    /\ IF unknown_parent
       THEN /\ return("update", {}, -1)
            /\ UNCHANGED <<ctxs, nnodes, dirstate, ms, mq, notrepo>>
       ELSE /\ dirstate' = rebuild(node)
            /\ ms' = <<>>
            /\ done
            /\ UNCHANGED <<ctxs, nnodes, mq, notrepo>>

\* merge.update(branchmerge=True): the paths of both manifests are kept,
\* merged cleanly or left in conflict; the paths of the other one alone are
\* taken; paths of the first parent alone may have been removed by the other
hg_merge(node, how, gone) ==
    LET m1 == manifest(dirstate.p1)
        m2 == manifest(node)
    IN  /\ dirstate' = [p1 |-> dirstate.p1, p2 |-> node,
                        map |-> [f \in Paths |->
                           IF f \in m1 \cap m2
                           THEN (IF how[f] = "keep" THEN "n" ELSE "m")
                           ELSE IF f \in m2 THEN "n"
                           ELSE IF f \in gone THEN "r"
                           ELSE dirstate.map[f]]]
        /\ ms' = [f \in {g \in m1 \cap m2 : how[g] # "keep"} |->
                    IF how[f] = "conflict" THEN "u" ELSE "r"]

\* commands.merge: 1 if there are unresolved files
merge(node) ==
    /\ node \in DOMAIN ctxs
    /\ IF \/ unknown_parent
          \/ dirstate.p2 # nullid
          \/ node \in ancestors(dirstate.p1)
          \/ dirstate.p1 \in ancestors(node)
          \/ dirstate.p1 = nullid
          \/ changes # {}
       THEN /\ return("merge", {}, -1)
            /\ UNCHANGED <<ctxs, nnodes, dirstate, ms, mq, notrepo>>
       ELSE \E how \in [manifest(dirstate.p1) \cap manifest(node) ->
                          {"keep", "merged", "conflict"}],
               gone \in SUBSET (manifest(dirstate.p1) \ manifest(node)) :
               /\ hg_merge(node, how, gone)
               /\ return("merge", {},
                         IF \E f \in DOMAIN how : how[f] = "conflict"
                         THEN 1 ELSE 0)
               /\ UNCHANGED <<ctxs, nnodes, mq, notrepo>>

\* mergestate.resolve: a resolved path is not merged again; an unresolved
\* one becomes resolved when the merge tool succeeds
ms_resolve(f, fails) == IF ms[f] = "u" /\ f \in fails THEN 1 ELSE 0

\* the options of resolve
ResolveModes == {"resolve", "resolve -m", "resolve -u", "resolve -l"}

\* commands.resolve without its return value: --mark forgets to mark
resolve_nomark(mode, all, pats, fails) ==
    LET m == {f \in DOMAIN ms : pats = {} \/ f \in pats}
    IN  IF (pats # {} /\ all) \/ (mode = "resolve" /\ ~all /\ pats = {})
        THEN /\ return(mode, pats, -1)
             /\ UNCHANGED <<ctxs, nnodes, dirstate, ms, mq, notrepo>>
        ELSE /\ ms' = [f \in DOMAIN ms |->
                         IF f \notin m \/ mode \in {"resolve -l", "resolve -m"}
                            THEN ms[f]
                         ELSE IF mode = "resolve -u" THEN "u"
                         ELSE IF ms_resolve(f, fails) = 0 THEN "r" ELSE "u"]
             /\ return(mode, pats,
                       IF mode = "resolve" /\
                          \E f \in m : ms_resolve(f, fails) # 0
                       THEN 1 ELSE 0)
             /\ UNCHANGED <<ctxs, nnodes, dirstate, mq, notrepo>>

\* commands.resolve returning 0 whatever the merge tool did
resolve_ret0(mode, all, pats, fails) ==
    LET m == {f \in DOMAIN ms : pats = {} \/ f \in pats}
    IN  IF (pats # {} /\ all) \/ (mode = "resolve" /\ ~all /\ pats = {})
        THEN /\ return(mode, pats, -1)
             /\ UNCHANGED <<ctxs, nnodes, dirstate, ms, mq, notrepo>>
        ELSE /\ ms' = [f \in DOMAIN ms |->
                         IF f \notin m \/ mode = "resolve -l" THEN ms[f]
                         ELSE IF mode = "resolve -m" THEN "r"
                         ELSE IF mode = "resolve -u" THEN "u"
                         ELSE IF ms_resolve(f, fails) = 0 THEN "r" ELSE "u"]
             /\ return(mode, pats, 0)
             /\ UNCHANGED <<ctxs, nnodes, dirstate, mq, notrepo>>

\* commands.resolve: the paths of the mergestate the patterns match are
\* listed, marked resolved, marked unresolved, or merged again; 1 if a
\* merge failed
resolve(mode, all, pats, fails) ==
    LET m == {f \in DOMAIN ms : pats = {} \/ f \in pats}
    IN  IF (pats # {} /\ all) \/ (mode = "resolve" /\ ~all /\ pats = {})
        THEN /\ return(mode, pats, -1)
             /\ UNCHANGED <<ctxs, nnodes, dirstate, ms, mq, notrepo>>
        ELSE /\ ms' = [f \in DOMAIN ms |->
                         IF f \notin m \/ mode = "resolve -l" THEN ms[f]
                         ELSE IF mode = "resolve -m" THEN "r"
                         ELSE IF mode = "resolve -u" THEN "u"
                         ELSE IF ms_resolve(f, fails) = 0 THEN "r" ELSE "u"]
             /\ return(mode, pats,
                       IF mode = "resolve" /\
                          \E f \in m : ms_resolve(f, fails) # 0
                       THEN 1 ELSE 0)
             /\ UNCHANGED <<ctxs, nnodes, dirstate, mq, notrepo>>

\* commands.debugsetparents: the parents are set, the entries left alone
debugsetparents(rev1, rev2) ==
    /\ rev1 \in DOMAIN ctxs \cup {nullid}
    /\ rev2 \in DOMAIN ctxs \cup {nullid}
    /\ dirstate' = [dirstate EXCEPT !.p1 = rev1, !.p2 = rev2]
    /\ done
    /\ UNCHANGED <<ctxs, nnodes, ms, mq, notrepo>>

\* commands.debugrebuildstate
debugrebuildstate(rev) ==
    /\ rev \in DOMAIN ctxs
    /\ dirstate' = rebuild(rev)
    /\ done
    /\ UNCHANGED <<ctxs, nnodes, ms, mq, notrepo>>

\* an empty repository, nothing checked out, no patch queue
RepoInit ==
    /\ ctxs = <<>>
    /\ nnodes = 0
    /\ dirstate = rebuild(nullid)
    /\ ms = <<>>
    /\ mq = [series |-> <<>>, applied |-> <<>>, active |-> {}, files |-> {}]
    /\ ret = [cmd |-> "", pats |-> {}, code |-> 0]

\* --------------------------------------------- the patch queue of one user
\* The mq commands of one user, each run to its end before the next one.
\* mq.series: the patches of the series file with their guards; mq.applied:
\* the status file, entries of node and name; mq.active: the selected guards;
\* mq.files: the names of the patch files in the patch directory.
\* number of patches a user ever names
MaxPatches == 2

PatchNames == {"a", "b"}

\* the markers qsave and qpush --merge put on the applied stack
saveline == ".hg.patches.save.line"

mergemarker == ".hg.patches.merge.marker"

\* what applying one patch does: the paths it touches, those of them it
\* leaves in place, and how it ends
PatchResults == {"ok", "unreadable", "rejects", "raise"}

Effects == {e \in (SUBSET Paths) \X (SUBSET Paths) : e[2] \subseteq e[1]}

Outcomes ==
    {[files |-> e[1], present |-> e[2], res |-> r] :
       e \in Effects, r \in {"ok", "rejects"}}
    \cup {[files |-> {}, present |-> {}, res |-> r] :
            r \in PatchResults \ {"ok", "rejects"}}

\* q.series: the names of the series, in order
series == [i \in 1..Len(mq.series) |-> mq.series[i].name]

\* list.index, counted from 0; -1 when the element is missing
index(s, x) ==
    IF \E i \in 1..Len(s) : s[i] = x
    THEN (CHOOSE i \in 1..Len(s) : s[i] = x /\ \A j \in 1..(i - 1) : s[j] # x)
         - 1
    ELSE -1

\* queue.find_series; None is -1
find_series(patch) == index(series, patch)

\* queue.isapplied
isapplied(patch) == \E i \in 1..Len(mq.applied) : mq.applied[i].name = patch

\* the nodes of a stack of applied entries
nodesof(stack) == {stack[i].node : i \in 1..Len(stack)}

\* queue.qparents(repo, rev)
qparents(stack, rev) ==
    IF ctxs[rev].p2 # nullid /\ ctxs[rev].p2 \in nodesof(stack)
    THEN ctxs[rev].p2
    ELSE ctxs[rev].p1

\* queue.full_series_end
full_series_end ==
    IF mq.applied # <<>>
    THEN LET end == find_series(mq.applied[Len(mq.applied)].name)
         IN  IF end = -1 THEN Len(mq.series) ELSE end + 1
    ELSE 0

\* queue.pushable(idx), idx counted from 0
q_pushable(idx) == pushable(mq.series[idx + 1].guards, mq.active).ok

\* queue.series_end(all_patches): the loop of next() leaves i at the last
\* index when it finds no pushable patch
queue_series_end(all_patches) ==
    LET len == Len(mq.series)
        next(start) ==
            IF all_patches \/ start >= len THEN start
            ELSE LET ok == {i \in start..(len - 1) : q_pushable(i)}
                 IN  IF ok = {} THEN len - 1
                     ELSE CHOOSE i \in ok : \A j \in ok : i <= j
    IN  IF mq.applied # <<>>
        THEN LET end == find_series(mq.applied[Len(mq.applied)].name)
             IN  IF end = -1 THEN 0 ELSE next(end + 1)
        ELSE next(0)

\* queue.series_end()
series_end == queue_series_end(FALSE)

\* queue.check_toppatch raises: the top patch is no parent of the working
\* directory
not_qtip ==
    /\ mq.applied # <<>>
    /\ mq.applied[Len(mq.applied)].node \notin {dirstate.p1, dirstate.p2}

\* the end of a command that aborts before it changed anything
abort(c) ==
    /\ return(c, {}, -1)
    /\ UNCHANGED <<ctxs, nnodes, dirstate, ms, mq, notrepo>>

\* the end of a command that returns without a change
nothing(c, code) ==
    /\ return(c, {}, code)
    /\ UNCHANGED <<ctxs, nnodes, dirstate, ms, mq, notrepo>>

\* the same, of a command whose result is of no interest
unchanged == nothing("", 0)

\* the qimport command of a patch file: the file is copied into the patch
\* directory unless one of its name exists, and the patch enters the series
\* after the last applied patch unless the series has it
qimport(name) ==
    IF name \in mq.files THEN unchanged
    ELSE IF name \in Range(series)
    THEN /\ mq' = [mq EXCEPT !.files = @ \cup {name}]
         /\ done
         /\ UNCHANGED <<ctxs, nnodes, dirstate, ms, notrepo>>
    ELSE LET i == full_series_end
         IN  /\ Len(mq.series) < MaxPatches
             /\ mq' = [mq EXCEPT
                         !.series = SubSeq(@, 1, i)
                                    \o <<[name |-> name, guards |-> <<>>]>>
                                    \o SubSeq(@, i + 1, Len(@)),
                         !.files = @ \cup {name}]
             /\ done
             /\ UNCHANGED <<ctxs, nnodes, dirstate, ms, notrepo>>

\* the qguard command on a patch of the series
qguard(name, guards) ==
    /\ name \in Range(series)
    /\ mq' = [mq EXCEPT !.series[find_series(name) + 1].guards = guards]
    /\ done
    /\ UNCHANGED <<ctxs, nnodes, dirstate, ms, notrepo>>

\* the qselect command without --pop and --reapply
qselect(guards) ==
    /\ mq' = [mq EXCEPT !.active = guards]
    /\ done
    /\ UNCHANGED <<ctxs, nnodes, dirstate, ms, notrepo>>

\* the changeset a patch becomes (patch, updatedir and the forced commit of
\* the paths it touched) and its entry on the applied stack
patched(r, name, out) ==
    LET n == r.nnodes + 1
        d == r.dirstate
        base == IF d.p1 = nullid THEN {} ELSE r.ctxs[d.p1].man
        man == (base \ out.files) \cup (out.files \cap out.present)
    IN  [r EXCEPT
           !.ctxs = @ @@ (n :> [p1 |-> d.p1, p2 |-> d.p2, man |-> man,
                                saved |-> <<>>]),
           !.nnodes = n,
           !.dirstate =
               [p1 |-> n, p2 |-> nullid,
                map |-> [f \in Paths |->
                           IF f \notin out.files THEN d.map[f]
                           ELSE IF f \in out.present THEN "n" ELSE "?"]],
           !.applied = Append(@, [node |-> n, name |-> name])]

\* queue._apply from patch i of s on: guarded patches are skipped, an
\* unreadable patch ends the loop with 1, a patch with rejects is committed
\* and ends it with 2
RECURSIVE q_apply(_, _, _, _)
q_apply(s, i, outs, r) ==
    IF i > Len(s) THEN r
    ELSE IF ~pushable(s[i].guards, mq.active).ok
    THEN q_apply(s, i + 1, outs, r)
    ELSE IF outs[i].res = "unreadable" THEN [r EXCEPT !.err = 1]
    ELSE IF outs[i].res = "raise" THEN [r EXCEPT !.raised = TRUE]
    ELSE LET r2 == patched(r, s[i].name, outs[i])
         IN  IF outs[i].res = "rejects" THEN [r2 EXCEPT !.err = 2]
             ELSE q_apply(s, i + 1, outs, r2)

\* queue.apply for the command c run with the names pats: the transaction of
\* _apply is closed and the queue saved, or aborted and the repository and
\* the dirstate invalidated
applying(c, pats, s, outs) ==
    LET r == q_apply(s, 1, outs,
                     [ctxs |-> ctxs, nnodes |-> nnodes, dirstate |-> dirstate,
                      applied |-> mq.applied, err |-> 0, raised |-> FALSE])
    IN  IF r.raised
        THEN /\ return(c, pats, -1)
             /\ UNCHANGED <<ctxs, nnodes, dirstate, ms, mq, notrepo>>
        ELSE /\ r.nnodes <= MaxNodes
             /\ ctxs' = r.ctxs
             /\ nnodes' = r.nnodes
             /\ dirstate' = r.dirstate
             /\ mq' = [mq EXCEPT !.applied = r.applied]
             /\ return(c, pats, r.err)
             /\ UNCHANGED <<ms, notrepo>>

\* queue.apply
apply(c, s, outs) == applying(c, {}, s, outs)

\* queue.push without a patch name, as hg qpush [-a] [-f] runs it
qpush(all, force, outs) ==
    IF mq.series = <<>> THEN nothing("qpush", 0)
    ELSE IF all /\ isapplied(series[Len(series)]) THEN nothing("qpush", 0)
    ELSE LET start == series_end
             end == IF all THEN Len(mq.series) ELSE start + 1
         IN  IF start = Len(mq.series) THEN nothing("qpush", 1)
             ELSE IF unknown_parent THEN abort("qpush")
             ELSE IF ~force /\ changes # {} THEN abort("qpush")
             ELSE IF start > 0 /\ not_qtip THEN abort("qpush")
             ELSE apply("qpush", SubSeq(mq.series, start + 1, end), outs)

\* a push that applies the named patch wherever the stack stands
qpush_patch_anywhere(patch, force, outs) ==
    IF find_series(patch) = -1 \/ unknown_parent
    THEN /\ return("qpush", {patch}, -1)
         /\ UNCHANGED <<ctxs, nnodes, dirstate, ms, mq, notrepo>>
    ELSE applying("qpush", {patch},
                  SubSeq(mq.series, find_series(patch) + 1,
                         find_series(patch) + 1), outs)

\* queue.push of a named patch, as hg qpush [-f] PATCH runs it: lookup knows
\* the names of the series only; series.index(patch, start) raises when the
\* patch lies before start
qpush_patch(patch, force, outs) ==
    LET ends(code) ==
            /\ return("qpush", {patch}, code)
            /\ UNCHANGED <<ctxs, nnodes, dirstate, ms, mq, notrepo>>
        names == [i \in 1..Len(mq.applied) |-> mq.applied[i].name]
        start == series_end
        end == find_series(patch) + 1
    IN  IF mq.series = <<>> THEN ends(0)
        ELSE IF find_series(patch) = -1 THEN ends(-1)
        ELSE IF isapplied(patch)
        THEN IF index(names, patch) < Len(mq.applied) - 1 THEN ends(-1)
             ELSE ends(0)
        ELSE IF ~q_pushable(find_series(patch)) THEN ends(1)
        ELSE IF start = Len(mq.series) THEN ends(1)
        ELSE IF unknown_parent THEN ends(-1)
        ELSE IF ~force /\ changes # {} THEN ends(-1)
        ELSE IF start > 0 /\ not_qtip THEN ends(-1)
        ELSE IF end <= start THEN ends(-1)
        ELSE applying("qpush", {patch},
                      SubSeq(mq.series, start + 1, end), outs)

\* repair.strip of revisions: they and their descendants leave the changelog
stripped(revs) ==
    [n \in DOMAIN ctxs \ descendants(revs) |-> ctxs[n]]

\* queue.pop(patch, force, all) and the save_dirty of the command: what it
\* returns and what it leaves.  pats: the patch named, if any; m: the paths
\* of both revisions whose content the popped patches changed; wrong: m is
\* no such set.  The code is -1 for an abort, and None counts as 0.
pop(pats, all, force, m) ==
    LET len == Len(mq.applied)
        left(code) == [code |-> code, wrong |-> m # {}, applied |-> mq.applied,
                       ctxs |-> ctxs, dirstate |-> dirstate]
        at == {i \in 1..len : mq.applied[i].name \in pats}
        info == CHOOSE i \in at : \A j \in at : i <= j
        start == IF all THEN 1 ELSE IF pats # {} THEN info + 1 ELSE len
        rev == mq.applied[start].node
        top == mq.applied[len].node
        upd == nodesof(SubSeq(mq.applied, start, len))
               \cap {dirstate.p1, dirstate.p2} # {}
        qp == qparents(mq.applied, rev)
        a == manifest(top) \ manifest(qp)
        r == manifest(qp) \ manifest(top)
    IN  IF pats # {} /\ at = {} THEN left(-1)
        ELSE IF mq.applied = <<>> THEN left(IF all THEN 0 ELSE 1)
        ELSE IF start > len THEN left(0)
        ELSE IF unknown_parent THEN left(-1)
        ELSE IF upd /\ ~force /\ changes # {} THEN left(-1)
        ELSE IF upd /\ not_qtip THEN left(-1)
        ELSE IF rev \notin DOMAIN ctxs THEN left(-1)
        ELSE IF descendants({rev}) \cap heads # {top} THEN left(-1)
        ELSE [code |-> 0,
              wrong |-> ~(m \subseteq manifest(qp) \cap manifest(top))
                        \/ (~upd /\ m # {}),
              applied |-> SubSeq(mq.applied, 1, start - 1),
              ctxs |-> stripped({rev}),
              dirstate |->
                  IF upd
                  THEN [p1 |-> qp, p2 |-> nullid,
                        map |-> [f \in Paths |->
                                   IF f \in a THEN "?"
                                   ELSE IF f \in m \cup r THEN "n"
                                   ELSE dirstate.map[f]]]
                  ELSE dirstate]

\* a qpop command that does not save the status file
popped_unsaved(c, pats, all, force, m) ==
    LET r == pop(pats, all, force, m)
    IN  /\ ~r.wrong
        /\ dirstate' = r.dirstate
        /\ ctxs' = r.ctxs
        /\ return(c, IF c = "" THEN {} ELSE pats, IF c = "" THEN 0 ELSE r.code)
        /\ UNCHANGED <<mq, nnodes, ms, notrepo>>

\* the qpop command run as c; c and pats are what the user is shown of it
popped(c, pats, all, force, m) ==
    LET r == pop(pats, all, force, m)
    IN  /\ ~r.wrong
        /\ dirstate' = r.dirstate
        /\ mq' = [mq EXCEPT !.applied = r.applied]
        /\ ctxs' = r.ctxs
        /\ return(c, IF c = "" THEN {} ELSE pats, IF c = "" THEN 0 ELSE r.code)
        /\ UNCHANGED <<nnodes, ms, notrepo>>

\* hg qpop [-a] [-f], its result of no interest
qpop(all, force, m) == popped("", {}, all, force, m)

\* hg qpop [-a] [-f] [PATCH]
qpop_patch(pats, all, force, m) ==
    popped(IF all THEN "qpop -a" ELSE "qpop", pats, all, force, m)

\* queue.new: the local changes become a changeset and a patch on top of
\* the applied ones; a failure after the commit rolls it back
qnew(name, fails) ==
    IF name \in mq.files THEN unchanged
    ELSE IF unknown_parent THEN unchanged
    ELSE IF dirstate.p2 # nullid THEN unchanged
    ELSE IF not_qtip THEN unchanged
    ELSE IF fails THEN unchanged
    ELSE LET i == full_series_end
         IN  /\ Len(mq.series) < MaxPatches
             /\ nnodes < MaxNodes
             /\ repo_commit
             /\ mq' = [mq EXCEPT
                         !.series = SubSeq(@, 1, i)
                                    \o <<[name |-> name, guards |-> <<>>]>>
                                    \o SubSeq(@, i + 1, Len(@)),
                         !.applied = Append(@, [node |-> nnodes + 1,
                                                name |-> name]),
                         !.files = @ \cup {name}]
             /\ done
             /\ UNCHANGED notrepo

\* queue.refresh: the top patch is stripped and committed again with the
\* local changes, under the parents it had.  The strip may fail (nothing has
\* changed then) and the commit may (the patch stays popped, the dirstate is
\* rebuilt on its first parent).
RefreshResults == {"ok", "stripfails", "commitfails"}

qrefresh(res) ==
    IF mq.applied = <<>> THEN unchanged
    ELSE LET top == mq.applied[Len(mq.applied)]
             rest == SubSeq(mq.applied, 1, Len(mq.applied) - 1)
         IN  IF not_qtip \/ unknown_parent THEN unchanged
             ELSE IF top.node \notin DOMAIN ctxs THEN unchanged
             ELSE IF descendants({top.node}) \cap heads # {top.node}
             THEN unchanged
             ELSE IF res = "stripfails" THEN unchanged
             ELSE IF res = "commitfails"
             THEN /\ ctxs' = stripped({top.node})
                  /\ dirstate' = rebuild(ctxs[top.node].p1)
                  /\ mq' = [mq EXCEPT !.applied = rest]
                  /\ done
                  /\ UNCHANGED <<nnodes, ms, notrepo>>
             ELSE LET n == nnodes + 1
                      man == {f \in Paths : dirstate.map[f] \in {"n", "a", "m"}}
                  IN  /\ nnodes < MaxNodes
                      /\ nnodes' = n
                      /\ ctxs' = stripped({top.node}) @@
                                 (n :> [p1 |-> ctxs[top.node].p1,
                                        p2 |-> ctxs[top.node].p2,
                                        man |-> man, saved |-> <<>>])
                      /\ dirstate' = [p1 |-> n, p2 |-> nullid,
                                      map |-> [f \in Paths |->
                                                 IF f \in man THEN "n" ELSE "?"]]
                      /\ ms' = <<>>
                      /\ mq' = [mq EXCEPT !.applied =
                                   Append(rest, [node |-> n, name |-> top.name])]
                      /\ done
                      /\ UNCHANGED notrepo

\* the qrename command: the series entry and the first applied entry of the
\* patch get the new name, and the patch file
qrename(patch, name) ==
    IF patch \notin Range(series) THEN unchanged
    ELSE IF name \in mq.files THEN unchanged
    ELSE IF name \in Range(series) THEN unchanged
    ELSE IF patch \notin mq.files THEN unchanged
    ELSE LET i == find_series(patch) + 1
             hit == {j \in 1..Len(mq.applied) : mq.applied[j].name = patch}
             info == CHOOSE j \in hit : \A k \in hit : j <= k
         IN  /\ mq' = [mq EXCEPT
                         !.series[i].name = name,
                         !.applied = IF hit = {} THEN @
                                     ELSE [@ EXCEPT ![info].name = name],
                         !.files = (@ \ {patch}) \cup {name}]
             /\ done
             /\ UNCHANGED <<ctxs, nnodes, dirstate, ms, notrepo>>

\* the revisions of a set, in the order of the changelog
RECURSIVE sorted(_)
sorted(S) ==
    IF S = {} THEN <<>>
    ELSE LET n == CHOOSE x \in S : \A y \in S : x <= y
         IN  <<n>> \o sorted(S \ {n})

\* a list without the later occurrences of its elements
uniq(s) ==
    LET t == SelectSeq([i \in 1..Len(s) |->
                          [x |-> s[i], first |-> index(s, s[i]) = i - 1]],
                       LAMBDA e : e.first)
    IN  [i \in 1..Len(t) |-> t[i].x]

\* del full_series[i] for the indices, counted from 0, in the given order;
\* -1 stands for None and raises, as an index past the end does
RECURSIVE deleted(_, _)
deleted(q, idxs) ==
    IF idxs = <<>> THEN [raised |-> FALSE, series |-> q]
    ELSE IF Head(idxs) < 0 \/ Head(idxs) >= Len(q)
    THEN [raised |-> TRUE, series |-> q]
    ELSE deleted(SubSeq(q, 1, Head(idxs)) \o SubSeq(q, Head(idxs) + 2, Len(q)),
                 Tail(idxs))

\* the list sorted with reverse=True
RECURSIVE reversed(_)
reversed(S) ==
    IF S = {} THEN <<>>
    ELSE LET n == CHOOSE x \in S : \A y \in S : x >= y
         IN  <<n>> \o reversed(S \ {n})

\* queue._cleanup(patches, numrevs, keep): the patch files are unlinked one
\* by one, the first numrevs entries leave the applied stack and the patches
\* the series.  A file that is missing, or a patch that is not in the
\* series, raises, and then the files unlinked so far are all that changed.
cleanup(patches, numrevs, keep) ==
    LET names == [i \in 1..Len(patches) |-> patches[i]]
        missing == {i \in 1..Len(names) :
                      names[i] \notin mq.files
                      \/ \E j \in 1..(i - 1) : names[j] = names[i]}
        n == IF keep THEN 0
             ELSE IF missing = {} THEN Len(names)
             ELSE (CHOOSE i \in missing : \A j \in missing : i <= j) - 1
        files == mq.files \ {names[j] : j \in 1..n}
        at == [i \in 1..Len(names) |-> find_series(names[i])]
        idxs == {at[i] : i \in 1..Len(names)}
        dups == \E i, j \in 1..Len(names) : i # j /\ at[i] = at[j]
        d == deleted(mq.series, reversed(idxs))
    IN  IF (~keep /\ missing # {}) \/ dups \/ d.raised
        THEN [raised |-> TRUE, mq |-> [mq EXCEPT !.files = files]]
        ELSE [raised |-> FALSE,
              mq |-> [mq EXCEPT !.files = files,
                                !.applied = SubSeq(@, numrevs + 1, Len(@)),
                                !.series = d.series]]

\* queue._revpatches(revs): the patches of the revisions, which must be the
\* changesets of the first applied entries, one by one
revpatches(revs) ==
    IF mq.applied[1].node \notin DOMAIN ctxs
       \/ \E i \in 1..Len(revs) :
             \/ revs[i] < mq.applied[1].node
             \/ revs[i] \notin DOMAIN ctxs
             \/ i > Len(mq.applied)
             \/ revs[i] # mq.applied[i].node
    THEN [raised |-> TRUE, patches |-> <<>>]
    ELSE [raised |-> FALSE,
          patches |-> [i \in 1..Len(revs) |-> mq.applied[i].name]]

\* the end of qdelete and of qfinish: the queue the cleanup left is saved
\* unless it raised, when only the unlinked files are gone
cleaned(c, pats, patches, numrevs, keep) ==
    LET r == cleanup(patches, numrevs, keep)
    IN  /\ mq' = r.mq
        /\ return(c, pats, IF r.raised THEN -1 ELSE 0)
        /\ UNCHANGED <<ctxs, nnodes, dirstate, ms, notrepo>>

\* a qdelete that does not look whether the patches are applied
queue_delete_applied(patches, revs, keep) ==
    LET c == IF revs = {} THEN "qdelete" ELSE "qdelete -r"
    IN  IF \E i \in 1..Len(patches) : patches[i] \notin Range(series)
        THEN /\ return(c, Range(patches), -1)
             /\ UNCHANGED <<ctxs, nnodes, dirstate, ms, mq, notrepo>>
        ELSE cleaned(c, Range(patches), uniq(patches), 0, keep)

\* the qdelete command, queue.delete(patches, rev, keep): every named patch
\* is looked up and must not be applied, the revisions of --rev must be the
\* first applied entries
queue_delete(patches, revs, keep) ==
    LET c == IF revs = {} THEN "qdelete" ELSE "qdelete -r"
        refused == /\ return(c, Range(patches), -1)
                   /\ UNCHANGED <<ctxs, nnodes, dirstate, ms, mq, notrepo>>
        realpatches == uniq(patches)
        rp == revpatches(sorted(revs))
    IN  IF patches = <<>> /\ revs = {} THEN refused
        ELSE IF \E i \in 1..Len(patches) :
                   patches[i] \notin Range(series) \/ isapplied(patches[i])
        THEN refused
        ELSE IF revs = {}
        THEN cleaned(c, Range(patches), realpatches, 0, keep)
        ELSE IF mq.applied = <<>> \/ rp.raised THEN refused
        ELSE cleaned(c, Range(patches), realpatches \o rp.patches,
                     Len(rp.patches), keep)

\* hg qdelete PATCH, its result of no interest
qdelete(patch) ==
    IF patch \notin Range(series) THEN unchanged
    ELSE IF isapplied(patch) THEN unchanged
    ELSE LET r == cleanup(<<patch>>, 0, FALSE)
         IN  /\ mq' = r.mq
             /\ done
             /\ UNCHANGED <<ctxs, nnodes, dirstate, ms, notrepo>>

\* a qfinish that takes as many entries off the stack as it is given
\* revisions, whatever they are
queue_finish_any(revs) ==
    LET k == Min(Cardinality(revs), Len(mq.applied))
    IN  cleaned("qfinish", {}, [i \in 1..k |-> mq.applied[i].name], k, FALSE)

\* the qfinish command, queue.finish(revs): the revisions, sorted, must be the
\* first applied entries; their patches leave the stack and the series and
\* their patch files are removed
queue_finish(revs) ==
    LET rp == revpatches(sorted(revs))
    IN  IF revs = {}
        THEN /\ return("qfinish", {}, -1)
             /\ UNCHANGED <<ctxs, nnodes, dirstate, ms, mq, notrepo>>
        ELSE IF mq.applied = <<>>
        THEN /\ return("qfinish", {}, 0)
             /\ UNCHANGED <<ctxs, nnodes, dirstate, ms, mq, notrepo>>
        ELSE IF rp.raised
        THEN /\ return("qfinish", {}, -1)
             /\ UNCHANGED <<ctxs, nnodes, dirstate, ms, mq, notrepo>>
        ELSE cleaned("qfinish", {}, rp.patches, Len(rp.patches), FALSE)

\* hg qfinish qbase::rev, its result of no interest
qfinish(rev) ==
    IF mq.applied = <<>> THEN unchanged
    ELSE IF mq.applied[1].node \notin DOMAIN ctxs \/ rev \notin DOMAIN ctxs
    THEN unchanged
    ELSE LET rp == revpatches(sorted(descendants({mq.applied[1].node})
                                     \cap ancestors(rev)))
             r == cleanup(rp.patches, Len(rp.patches), FALSE)
         IN  IF rp.raised THEN unchanged
             ELSE /\ mq' = r.mq
                  /\ done
                  /\ UNCHANGED <<ctxs, nnodes, dirstate, ms, notrepo>>

\* the qsave command: a changeset whose description holds the applied stack
\* and the series, and the save line on the stack; with --empty the status
\* file is removed
qsave(empty) ==
    IF mq.applied = <<>> THEN unchanged
    ELSE IF mq.applied[Len(mq.applied)].name = saveline
    THEN unchanged
    ELSE IF unknown_parent THEN unchanged
    ELSE /\ nnodes < MaxNodes
         /\ committed(<<[series |-> mq.series, applied |-> mq.applied]>>)
         /\ mq' = [mq EXCEPT !.applied =
                      IF empty THEN <<>>
                      ELSE Append(@, [node |-> nnodes + 1, name |-> saveline])]
         /\ done
         /\ UNCHANGED notrepo

\* the qrestore command: the series and the stack of a save changeset come
\* back; with --delete a save changeset that is a head is stripped, the
\* working directory first taken off it
qrestore(rev, delete) ==
    /\ rev \in DOMAIN ctxs
    /\ IF ctxs[rev].saved = <<>> THEN unchanged
       ELSE LET s == ctxs[rev].saved[1]
                upd == rev \in {dirstate.p1, dirstate.p2}
                q == [mq EXCEPT !.series = s.series, !.applied = s.applied]
            IN  IF ~(delete /\ rev \in heads)
                THEN /\ mq' = q
                     /\ done
                     /\ UNCHANGED <<ctxs, nnodes, dirstate, ms, notrepo>>
                ELSE IF upd /\ (unknown_parent \/ changes # {})
                THEN unchanged
                ELSE /\ mq' = q
                     /\ dirstate' = IF upd THEN rebuild(qparents(s.applied, rev))
                                    ELSE dirstate
                     /\ ms' = IF upd THEN <<>> ELSE ms
                     /\ ctxs' = stripped({rev})
                     /\ done
                     /\ UNCHANGED <<nnodes, notrepo>>

\* the strip command of mq on the revisions revs, with or without --keep
\* and --force.  The applied stack is cut and saved before queue.strip
\* looks for local changes.
hg_strip(revs, keep, force) ==
    LET top == mq.applied[Len(mq.applied)].node
        roots == {r \in revs : ancestors(r) \cap revs = {r}}
        pp == {dirstate.p1, dirstate.p2} \ {nullid}
        upd == pp \cap descendants(revs) # {}
        cut == mq.applied # <<>> /\ top \in descendants(revs)
        hit == {i \in 1..Len(mq.applied) : mq.applied[i].node \in roots}
        start == IF hit = {} THEN 1 ELSE CHOOSE i \in hit : \A j \in hit : i <= j
        stack == IF cut THEN SubSeq(mq.applied, 1, start - 1) ELSE mq.applied
    IN  /\ revs # {}
        /\ revs \subseteq DOMAIN ctxs
        /\ IF ~(pp \subseteq DOMAIN ctxs) THEN unchanged
           ELSE IF mq.applied # <<>> /\ top \notin DOMAIN ctxs
           THEN unchanged
           ELSE IF upd /\ ~keep /\ ~force /\ changes # {}
           THEN /\ mq' = [mq EXCEPT !.applied = stack]
                /\ done
                /\ UNCHANGED <<ctxs, nnodes, dirstate, ms, notrepo>>
           ELSE \E r \in roots :
                   /\ mq' = [mq EXCEPT !.applied = stack]
                   /\ dirstate' = IF upd THEN rebuild(qparents(stack, r))
                                  ELSE dirstate
                   /\ ms' = IF upd /\ ~keep THEN <<>> ELSE ms
                   /\ ctxs' = stripped(revs)
                   /\ done
                   /\ UNCHANGED <<nnodes, notrepo>>

\* the commit of the merge marker: everything the dirstate tracks
marker(r) ==
    LET n == r.nnodes + 1
        d == r.dirstate
        man == {f \in Paths : d.map[f] \in {"n", "a", "m"}}
    IN  [r EXCEPT
           !.ctxs = @ @@ (n :> [p1 |-> d.p1, p2 |-> d.p2, man |-> man,
                                saved |-> <<>>]),
           !.nnodes = n,
           !.dirstate = [p1 |-> n, p2 |-> nullid,
                         map |-> [f \in Paths |->
                                    IF f \in man THEN "n" ELSE "?"]],
           !.applied = Append(@, [node |-> n, name |-> mergemarker])]

\* the state a command leaves: the repository and the dirstate of r, the
\* status file as stack
leave(c, r, stack, code) ==
    /\ r.nnodes <= MaxNodes
    /\ ctxs' = r.ctxs
    /\ nnodes' = r.nnodes
    /\ dirstate' = r.dirstate
    /\ mq' = [mq EXCEPT !.applied = stack]
    /\ return(c, {}, code)
    /\ UNCHANGED <<ms, notrepo>>

\* how the merge of one patch ends: the patch applies; it does not and the
\* merge with its old revision does; that merge leaves conflicts; the patch
\* cannot be read
MergeResults == {"ok", "merged", "conflicts", "unreadable"}

\* queue.mergepatch of one patch: rev is the changeset the patch has in the
\* saved queue (nullid: it has none).  When the patch does not apply, its
\* changeset is stripped and head merged with rev: hg.merge refuses a merge
\* with an ancestor or a descendant, and after conflicts the revert of
\* queue.push leaves both parents in place.
mergepatch(patch, rev, how, out) ==
    LET r0 == [ctxs |-> ctxs, nnodes |-> nnodes, dirstate |-> dirstate,
               applied |-> mq.applied, err |-> 0, raised |-> FALSE]
        r1 == IF mq.applied = <<>> THEN marker(r0) ELSE r0
        head == IF r1.dirstate.p2 = nullid THEN r1.dirstate.p1
                ELSE r1.applied[Len(r1.applied)].node
        n == r1.nnodes + 1
        both == (IF head = nullid THEN {} ELSE r1.ctxs[head].man)
                \cup r1.ctxs[rev].man
        anc(x) == IF x \in DOMAIN ctxs THEN ancestors(x)
                  ELSE IF x \in DOMAIN r1.ctxs
                  THEN {x} \cup ancestors(r1.ctxs[x].p1)
                       \cup ancestors(r1.ctxs[x].p2)
                  ELSE {}
        mergeable == head # nullid /\ head \notin anc(rev)
                     /\ rev \notin anc(head)
        athead == [p1 |-> head, p2 |-> nullid,
                   map |-> [f \in Paths |->
                              IF head # nullid /\ f \in r1.ctxs[head].man
                              THEN "n" ELSE "?"]]
    IN  IF ~pushable(patch.guards, mq.active).ok
        THEN leave("qpush", r1, r1.applied, 0)
        ELSE IF rev = nullid THEN leave("qpush", r1, mq.applied, 1)
        ELSE IF how = "unreadable" THEN leave("qpush", r1, mq.applied, -1)
        ELSE IF how = "ok"
        THEN LET r2 == patched([r1 EXCEPT !.dirstate.p2 = rev], patch.name,
                               out)
             IN  leave("qpush", r2, r2.applied, 0)
        ELSE IF head \notin DOMAIN r1.ctxs \cup {nullid}
        THEN LET r2 == patched([r1 EXCEPT !.dirstate.p2 = rev], patch.name,
                               out)
             IN  leave("qpush", r2, r1.applied, -1)
        ELSE IF ~mergeable
        THEN leave("qpush", [r1 EXCEPT !.dirstate = athead], r1.applied, -1)
        ELSE IF how = "conflicts"
        THEN leave("qpush", [r1 EXCEPT !.dirstate = [athead EXCEPT !.p2 = rev]],
                   r1.applied, -1)
        ELSE LET stack == Append(r1.applied, [node |-> n, name |-> patch.name])
             IN  leave("qpush",
                       [r1 EXCEPT
                          !.ctxs = @ @@ (n :> [p1 |-> head, p2 |-> rev,
                                               man |-> both, saved |-> <<>>]),
                          !.nnodes = n,
                          !.dirstate =
                              [p1 |-> n, p2 |-> nullid,
                               map |-> [f \in Paths |->
                                          IF f \in both THEN "n" ELSE "?"]]],
                       stack, 0)

\* queue.push with a merge queue, as hg qpush --merge runs it
qpush_merge(force, rev, how, out) ==
    IF mq.series = <<>> THEN nothing("qpush", 0)
    ELSE LET start == series_end
         IN  IF start = Len(mq.series) THEN nothing("qpush", 1)
             ELSE IF unknown_parent THEN abort("qpush")
             ELSE IF ~force /\ changes # {} THEN abort("qpush")
             ELSE IF start > 0 /\ not_qtip THEN abort("qpush")
             ELSE /\ rev \in DOMAIN ctxs \cup {nullid}
                  /\ mergepatch(mq.series[start + 1], rev, how, out)

\* ---------------------------------------------------------------- push
\* discovery.findoutgoing: the changesets the remote lacks, all of them or
\* the ancestors of the revisions given
outgoing(revs) ==
    (IF revs = {} THEN DOMAIN ctxs
     ELSE UNION {ancestors(n) : n \in revs}) \ DOMAIN remote

\* the heads of a set of changesets
headsof(r) ==
    {n \in DOMAIN r : \A c \in DOMAIN r : n \notin {r[c].p1, r[c].p2}}

\* localrepo.push under commands.push: 1 when there is nothing to send, an
\* abort when the push would add a head to a remote that has changesets
repo_push(c, force, revs) ==
    LET sent == remote @@ [n \in outgoing(revs) |-> ctxs[n]]
    IN  IF outgoing(revs) = {}
        THEN /\ return(c, {}, 1)
             /\ UNCHANGED remote
        ELSE IF /\ ~force
                /\ DOMAIN remote # {}
                /\ Cardinality(headsof(sent)) > Cardinality(headsof(remote))
        THEN /\ return(c, {}, -1)
             /\ UNCHANGED remote
        ELSE /\ return(c, {}, 0)
             /\ remote' = sent

\* mqrepo.push under commands.push, which looks the revisions up: hg push,
\* hg push -f, hg push -r REV
push(force, revs) ==
    LET c == IF force THEN "push -f" ELSE "push"
        haspatches == IF revs # {}
                      THEN revs \cap nodesof(mq.applied) # {}
                      ELSE TRUE
    IN  /\ IF ~(revs \subseteq DOMAIN ctxs)
           THEN /\ return(c, {}, -1)
                /\ UNCHANGED remote
           ELSE IF mq.applied # <<>> /\ ~force /\ haspatches
           THEN /\ return(c, {}, -1)
                /\ UNCHANGED remote
           ELSE repo_push(c, force, revs)
        /\ UNCHANGED <<ctxs, nnodes, dirstate, ms, mq, core, gs, acl,
                       queues, pk, oa>>

\* -------------------------------------------------------------- qqueue
\* the names the user gives to qqueue, and the characters of each
QueueNames == {"patches", "b", "c.d"}

letters ==
    [n \in QueueNames |->
       CASE n = "patches" -> {"p", "a", "t", "c", "h", "e", "s"}
         [] n = "b" -> {"b"}
         [] n = "c.d" -> {"c", ".", "d"}]

\* qqueue._validname
validname(name) == letters[name] \cap {":", "\\", "/", "."} = {}

ValidNames == {n \in QueueNames : validname(n)}

\* a queue directory without patches
EmptyQueue == [series |-> <<>>, applied |-> <<>>, active |-> {}, files |-> {}]

NoDir == [exists |-> FALSE, q |-> EmptyQueue]

\* no patches.queues, no patches.queue, no queue directory.  listed: the
\* file patches.queues exists; all: its lines; active: the queue named in
\* patches.queue, patches when it is empty; dirs: the directories of the
\* queues that are not active, and whether the active one exists
NoQueues ==
    [listed |-> FALSE, all |-> {}, active |-> "patches",
     dirs |-> [n \in ValidNames |-> NoDir]]

\* qqueue._getqueues
getqueues ==
    IF queues.listed THEN queues.all \cup {queues.active} ELSE {"patches"}

\* qqueue._setactivenocheck, and the queue the next command loads: the
\* directory of the active queue is left as it is, with e telling whether
\* it exists, and the one of name becomes the queue
setactivenocheck(qs, name, e) ==
    IF name = qs.active
    THEN /\ queues' = [qs EXCEPT !.dirs[name] = [exists |-> e,
                                                  q |-> EmptyQueue]]
         /\ UNCHANGED mq
    ELSE /\ queues' = [qs EXCEPT !.active = name,
                                 !.dirs[qs.active] = [exists |-> e, q |-> mq],
                                 !.dirs[name] = [exists |-> @.exists,
                                                 q |-> EmptyQueue]]
         /\ mq' = qs.dirs[name].q

\* qqueue._setactive without its test of the applied patches
setactive_unchecked(c, qs, name, e) ==
    /\ return(c, {name}, 0)
    /\ setactivenocheck(qs, name, e)

\* qqueue._setactive: refused while patches are applied
setactive(c, qs, name, e) ==
    IF mq.applied # <<>>
    THEN /\ return(c, {name}, -1)
         /\ queues' = qs
         /\ UNCHANGED mq
    ELSE /\ return(c, {name}, 0)
         /\ setactivenocheck(qs, name, e)

\* qqueue._delete, on the list qs
queue_delete_name(c, qs, name) ==
    IF name \notin getqueues \/ name = queues.active
    THEN /\ return(c, {name}, -1)
         /\ UNCHANGED <<queues, mq>>
    ELSE /\ return(c, {name}, 0)
         /\ queues' = [qs EXCEPT !.listed = TRUE, !.all = getqueues \ {name}]
         /\ UNCHANGED mq

\* mq.qqueue with a name: hg qqueue NAME, --create, --rename, --delete and
\* --purge.  The directory of the active queue exists when the queue has
\* patches or had some
qqueue(op, name) ==
    LET c == CASE op = "create" -> "qqueue -c"
               [] op = "rename" -> "qqueue --rename"
               [] op = "delete" -> "qqueue --delete"
               [] op = "purge" -> "qqueue --purge"
               [] OTHER -> "qqueue"
        existing == getqueues
        current == queues.active
        aborts == /\ return(c, {name}, -1)
                  /\ UNCHANGED <<queues, mq>>
    IN  /\ \E e \in IF mq # EmptyQueue \/ queues.dirs[current].exists
                     THEN {TRUE} ELSE BOOLEAN :
             IF ~validname(name) THEN aborts
             ELSE IF op = "create"
             THEN IF name \in existing THEN aborts
                  ELSE setactive(c,
                                 [queues EXCEPT
                                    !.listed = TRUE,
                                    !.all = (IF queues.listed THEN @
                                             ELSE {"patches"}) \cup {name}],
                                 name, e)
             ELSE IF op = "rename"
             THEN IF name = current \/ name \in existing
                     \/ queues.dirs[name].exists
                  THEN aborts
                  ELSE /\ return(c, {name}, 0)
                       /\ queues' =
                            [queues EXCEPT
                               !.listed = TRUE,
                               !.all = (existing \ {current}) \cup {name},
                               !.active = name,
                               !.dirs[current] = NoDir,
                               !.dirs[name] = [exists |-> e,
                                               q |-> EmptyQueue]]
                       /\ UNCHANGED mq
             ELSE IF op = "delete" THEN queue_delete_name(c, queues, name)
             ELSE IF op = "purge"
             THEN IF name \in existing
                  THEN queue_delete_name(c, [queues EXCEPT
                                               !.dirs[name] = NoDir], name)
                  ELSE /\ return(c, {name}, 0)
                       /\ queues' = [queues EXCEPT !.dirs[name] = NoDir]
                       /\ UNCHANGED mq
             ELSE IF name \notin existing THEN aborts
             ELSE setactive(c, queues, name, e)
        /\ UNCHANGED <<ctxs, nnodes, dirstate, ms, core, gs, acl, remote, pk,
                       oa>>

\* ------------------------------------------------------------- pushkey
Namespaces == {"bookmarks", "phases"}

Keys == {"k"}

\* the values of a key; the empty string stands for a key that is not set
Values == {"", "u", "v"}

\* no key is set, nobody pushes.  store: the value of every key; wlock:
\* its holder, 0 when free; procs: the push of every process, where it is,
\* what it returned, the processes whose pushes it met while it was under
\* way, and those of them that set its key meanwhile
NoKeys ==
    [store |-> [x \in Namespaces \X Keys |-> ""],
     wlock |-> 0,
     procs |-> [p \in Procs |->
                  [pc |-> "idle", ns |-> "bookmarks", key |-> "k",
                   old |-> "", new |-> "", code |-> 0,
                   met |-> {}, seen |-> {}]]]

\* a push is under way
pushing(p) == pk.procs[p].pc \in {"wlock", "compare", "write"}

\* the step of a push leaves everything else alone
pushkey_only == UNCHANGED <<core, repo, gs, acl, remote, queues, oa>>

\* commands.debugpushkey with five arguments: the call of target.pushkey
debugpushkey(p, namespace, key, old, new) ==
    /\ ~pushing(p)
    /\ pk' = [pk EXCEPT
                !.procs =
                   [q \in Procs |->
                      IF q = p
                      THEN [pc |-> "wlock", ns |-> namespace, key |-> key,
                            old |-> old, new |-> new, code |-> 0,
                            met |-> {o \in Procs \ {p} : pushing(o)},
                            seen |-> {}]
                      ELSE IF pushing(q)
                      THEN [pk.procs[q] EXCEPT !.met = @ \cup {p}]
                      ELSE [pk.procs[q] EXCEPT !.met = @ \ {p}]]]
    /\ pushkey_only

\* the answer of pushkey taken as the exit code
reports_answer(r) == IF r THEN 1 ELSE 0

\* commands.debugpushkey: the exit code for the answer r of pushkey
reports(r) == IF r THEN 0 ELSE 1

\* a push that holds no lock
pushkey_nolock(p) ==
    /\ pk.procs[p].pc = "wlock"
    /\ pk' = [pk EXCEPT !.procs[p].pc = "compare"]
    /\ pushkey_only

\* the push takes the lock of the repository it writes to
pushkey_wlock(p) ==
    /\ pk.procs[p].pc = "wlock"
    /\ pk.wlock = 0
    /\ pk' = [pk EXCEPT !.wlock = p, !.procs[p].pc = "compare"]
    /\ pushkey_only

\* the push compares the value of the key with old: it answers False and
\* releases the lock when they differ
pushkey_compare(p) ==
    LET a == pk.procs[p]
    IN  /\ a.pc = "compare"
        /\ IF pk.store[<<a.ns, a.key>>] = a.old
           THEN pk' = [pk EXCEPT !.procs[p].pc = "write"]
           ELSE pk' = [pk EXCEPT !.procs[p].pc = "done",
                                 !.procs[p].code = reports(FALSE),
                                 !.wlock = IF @ = p THEN 0 ELSE @]
        /\ pushkey_only

\* the push sets the key to new, answers True and releases the lock
pushkey_write(p) ==
    LET a == pk.procs[p]
    IN  /\ a.pc = "write"
        /\ pk' = [pk EXCEPT
                    !.store[<<a.ns, a.key>>] = a.new,
                    !.procs =
                       [q \in Procs |->
                          IF q = p
                          THEN [a EXCEPT !.pc = "done",
                                         !.code = reports(TRUE)]
                          ELSE IF /\ pushing(q)
                                  /\ pk.procs[q].ns = a.ns
                                  /\ pk.procs[q].key = a.key
                          THEN [pk.procs[q] EXCEPT !.seen = @ \cup {p}]
                          ELSE pk.procs[q]],
                    !.wlock = IF @ = p THEN 0 ELSE @]
        /\ pushkey_only

\* ------------------------------------------- the OAuth credentials file
\* lazr/restfulclient/authorize/oauth.py: an authorizer writes its consumer
\* and its access token through a SafeConfigParser and reads them back.  A
\* string is the sequence of its characters.  ConfigParser is the module of
\* Python 2.6, the library the package is installed for (lib/python2.6);
\* of its rules those are written out that the calls of oauth.py reach with
\* the characters of Alphabet.

\* length of a key or of a secret
MaxLen == 2

\* a letter, a blank, and the character of interpolation
Alphabet == {"a", " ", "%"}

Strings == UNION {[1..n -> Alphabet] : n \in 0..MaxLen}

None == <<>>

Some(x) == <<x>>

CREDENTIALS_FILE_VERSION == "1"

Consumer(key, secret) == [key |-> key, secret |-> secret]

AccessToken(key, secret) == [key |-> key, secret |-> secret]

\* no authorizer, no file at the path, nothing saved or loaded.  save, load:
\* "" before the call, "ok" when it returned, else the exception it raised
NoCredentials ==
    [credentials |-> None, file |-> None, save |-> "", load |-> "",
     loaded |-> None]

isspace(c) == c \in {" ", "\t"}

RECURSIVE lstrip(_)
lstrip(s) == IF s # <<>> /\ isspace(Head(s)) THEN lstrip(Tail(s)) ELSE s

RECURSIVE rstrip(_)
rstrip(s) ==
    IF s # <<>> /\ isspace(s[Len(s)])
    THEN rstrip(SubSeq(s, 1, Len(s) - 1))
    ELSE s

\* value.replace('%%', '')
RECURSIVE replace_percents(_)
replace_percents(s) ==
    IF s = <<>> THEN <<>>
    ELSE IF Len(s) >= 2 /\ s[1] = "%" /\ s[2] = "%"
         THEN replace_percents(SubSeq(s, 3, Len(s)))
         ELSE <<Head(s)>> \o replace_percents(Tail(s))

\* SafeConfigParser.set: ValueError when a percent sign is left after the
\* doubled ones are taken out (no value here holds a "%(name)s")
parser_set(value) ==
    \A i \in DOMAIN replace_percents(value) :
       replace_percents(value)[i] # "%"

Line(kind, name, rest) == [kind |-> kind, name |-> name, rest |-> rest]

\* RawConfigParser.write: "[section]", then "key = value" for every option,
\* then an empty line (str(value).replace('\n', '\n\t'): no value here holds
\* a newline)
parser_write(section, options) ==
    <<Line("section", section, <<>>)>>
    \o [i \in DOMAIN options |->
          Line("option", options[i][1], <<" ", "=", " ">> \o options[i][2])]
    \o <<Line("blank", "", <<>>)>>

\* RawConfigParser._read, the section a line belongs to
cursect(file, i) ==
    LET sects == {j \in 1..(i - 1) : file[j].kind = "section"}
    IN  IF sects = {} THEN None
        ELSE Some(file[CHOOSE j \in sects : \A k \in sects : k <= j].name)

has_section(file, section) ==
    \E i \in DOMAIN file : file[i].kind = "section" /\ file[i].name = section

\* RawConfigParser._read on what follows the name of an option: OPTCRE
\* skips the blanks around the '=', a ';' after a blank starts a comment,
\* the value is stripped, and '""' stands for the empty string
optval(rest) ==
    LET v0 == lstrip(Tail(lstrip(rest)))
        semis == {i \in DOMAIN v0 : v0[i] = ";"}
        pos == CHOOSE i \in semis : \A j \in semis : i <= j
        before == IF pos = 1 THEN v0[Len(v0)] ELSE v0[pos - 1]
        v1 == IF semis # {} /\ isspace(before)
              THEN SubSeq(v0, 1, pos - 1)
              ELSE v0
        v2 == rstrip(lstrip(v1))
    IN  IF v2 = <<"\"", "\"">> THEN <<>> ELSE v2

\* the lines that set the option in the section
optlines(file, section, option) ==
    {i \in DOMAIN file : /\ file[i].kind = "option"
                         /\ file[i].name = option
                         /\ cursect(file, i) = Some(section)}

\* the value as parsed, the last line winning
rawval(file, section, option) ==
    LET ls == optlines(file, section, option)
    IN  optval(file[CHOOSE i \in ls : \A j \in ls : j <= i].rest)

\* SafeConfigParser._interpolate_some: "%%" stands for "%", any other "%"
\* is an InterpolationSyntaxError
interpolable(s) == parser_set(s)

RECURSIVE interpolate(_)
interpolate(s) ==
    IF s = <<>> THEN <<>>
    ELSE IF Len(s) >= 2 /\ s[1] = "%" /\ s[2] = "%"
         THEN <<"%">> \o interpolate(SubSeq(s, 3, Len(s)))
         ELSE <<Head(s)>> \o interpolate(Tail(s))

\* SafeConfigParser.get
parser_get(file, section, option) ==
    interpolate(rawval(file, section, option))

\* the four options of the file, in the order save sets them
Options == <<"consumer_key", "consumer_secret", "access_token", "access_secret">>

\* OAuthAuthorizer.save: what it raises, "ok" when it wrote
save_raises(c) ==
    IF c.consumer = None THEN "CredentialsFileError"
    ELSE IF c.access_token = None THEN "CredentialsFileError"
    ELSE IF \E v \in {c.consumer[1].key, c.consumer[1].secret,
                      c.access_token[1].key, c.access_token[1].secret} :
               ~parser_set(v)
         THEN "ValueError"
         ELSE "ok"

\* OAuthAuthorizer.save: what it writes
save(c) ==
    parser_write(CREDENTIALS_FILE_VERSION,
                 <<<<Options[1], c.consumer[1].key>>,
                   <<Options[2], c.consumer[1].secret>>,
                   <<Options[3], c.access_token[1].key>>,
                   <<Options[4], c.access_token[1].secret>>>>)

\* OAuthAuthorizer.load: what it raises, "ok" when it read the four values
load_raises(file) ==
    IF ~has_section(file, CREDENTIALS_FILE_VERSION)
    THEN "CredentialsFileError"
    ELSE IF \E i \in DOMAIN Options :
               optlines(file, CREDENTIALS_FILE_VERSION, Options[i]) = {}
         THEN "NoOptionError"
         ELSE IF \E i \in DOMAIN Options :
                    ~interpolable(rawval(file, CREDENTIALS_FILE_VERSION,
                                         Options[i]))
              THEN "InterpolationSyntaxError"
              ELSE "ok"

\* OAuthAuthorizer.load: the consumer and the access token it sets
load(file) ==
    [consumer |->
        Some(Consumer(parser_get(file, CREDENTIALS_FILE_VERSION, Options[1]),
                      parser_get(file, CREDENTIALS_FILE_VERSION, Options[2]))),
     access_token |->
        Some(AccessToken(parser_get(file, CREDENTIALS_FILE_VERSION, Options[3]),
                         parser_get(file, CREDENTIALS_FILE_VERSION, Options[4])))]

oauth_only == UNCHANGED <<core, repo, gs, acl, remote, queues, pk>>

\* OAuthAuthorizer.__init__: no consumer without a consumer name
OAuthAuthorizer(consumer_name, consumer_secret, access_token) ==
    /\ oa' = [oa EXCEPT !.credentials =
                Some([consumer |->
                         IF consumer_name = None THEN None
                         ELSE Some(Consumer(consumer_name[1], consumer_secret)),
                      access_token |-> access_token])]
    /\ oauth_only

\* OAuthAuthorizer.save_to_path: open(path, 'w') empties the file before
\* save is called, and an exception of save leaves it empty
save_to_path ==
    /\ oa.credentials # None
    /\ LET c == oa.credentials[1]
           raised == save_raises(c)
       IN  oa' = [oa EXCEPT !.file = IF raised = "ok" THEN Some(save(c))
                                     ELSE Some(<<>>),
                            !.save = raised,
                            !.load = "",
                            !.loaded = None]
    /\ oauth_only

\* OAuthAuthorizer.load_from_path: IOError when there is no file
load_from_path ==
    /\ LET raised == IF oa.file = None THEN "IOError"
                     ELSE load_raises(oa.file[1])
       IN  oa' = [oa EXCEPT !.load = raised,
                            !.loaded = IF raised = "ok"
                                       THEN Some(load(oa.file[1]))
                                       ELSE None]
    /\ oa' # oa
    /\ oauth_only

\* ------------------------------------------------------ the specification
CoreInit ==
    /\ ps = [p \in Procs |-> Idle]
    /\ cl = <<>>
    /\ mf = <<>>
    /\ fl = <<>>
    /\ journal = NoJournal
    /\ undo = NoJournal
    /\ nextid = 1
    /\ applied = <<>>
    /\ backups = {}
    /\ txpre = NoStore
    /\ rd = [pc |-> "idle", snap |-> <<>>, res |-> "none", trunc |-> FALSE]

\* a patch without guards
NoGuards == gs = [patchguards |-> <<>>, active |-> {}, res |-> NoAnswer]

\* no section of the acl configuration
NoAcl ==
    acl = [cfg |-> [sources |-> {"serve"},
                    allowbranches |-> [present |-> FALSE, items |-> <<>>],
                    denybranches |-> [present |-> FALSE, items |-> <<>>],
                    allow |-> [present |-> FALSE, items |-> <<>>],
                    deny |-> [present |-> FALSE, items |-> <<>>]],
           user |-> "alice", log |-> <<>>, hooktype |-> "", source |-> "",
           group |-> <<>>, res |-> ""]

\* an empty remote, the default queue alone, no pushkey, no authorizer
Apart ==
    /\ remote = <<>>
    /\ queues = NoQueues
    /\ pk = NoKeys
    /\ oa = NoCredentials

\* the store, the working directory, no guards, no acl configuration
Init ==
    /\ CoreInit
    /\ RepoInit
    /\ NoGuards
    /\ NoAcl
    /\ Apart

\* the steps of a process on its own
work(p) ==
    \/ dispatch(p)
    \/ repo_wlock(p)
    \/ repo_lock(p)
    \/ wlock_release(p)
    \/ lock_release(p)
    \/ repo_transaction(p)
    \/ filelog_add(p)
    \/ manifest_add(p)
    \/ changelog_add(p)
    \/ tr_close(p)
    \/ tr_release(p)
    \/ tr_abort(p)
    \/ removeundo(p)
    \/ save_dirty(p)
    \/ push_check(p)
    \/ pop_select(p)
    \/ refresh_check(p)
    \/ refresh_pop(p)
    \/ strip_revs(p)
    \/ clone_qbase(p)
    \/ repair_strip(p)
    \/ repo_rollback(p)
    \/ repo_recover(p)
    \/ hg_verify(p)
    \/ exact_check(p)
    \/ exact_mismatch(p)
    \/ raise(p)
    \/ crash(p)

\* the steps of a process among others: a lock it waits for may time out
step(p) == work(p) \/ lock_timeout(p)

\* the steps of the commands that meet at the locks
lockstep(p) ==
    \/ dispatching(p, LockCommands)
    \/ repo_wlock(p)
    \/ wlock_nowait(p)
    \/ repo_lock(p)
    \/ lock_timeout(p)
    \/ wlock_release(p)
    \/ lock_release(p)
    \/ repo_transaction(p)
    \/ filelog_add(p)
    \/ manifest_add(p)
    \/ changelog_add(p)
    \/ tr_close(p)
    \/ tr_release(p)
    \/ tr_abort(p)
    \/ removeundo(p)
    \/ save_dirty(p)
    \/ push_check(p)
    \/ refresh_check(p)
    \/ refresh_pop(p)
    \/ repair_strip(p)
    \/ raise(p)

LockNext == \E p \in Procs : lockstep(p)

LockSpec == Init /\ [][LockNext]_vars

\* concurrent processes, each running one command after another
Next == \E p \in Procs : step(p)

Spec == Init /\ [][Next]_vars

\* one writing process at a time (the locks serialize the writers) and a
\* reader that takes no lock
ReaderNext == work(1) \/ read_changelog \/ read_revisions

ReaderSpec == Init /\ [][ReaderNext]_vars

\* the commands of the working directory, one after another
WdNext ==
    \/ \E f \in Paths : add(f) \/ remove(f)
    \/ commit
    \/ \E n \in Nodes \cup {nullid} : update(n)
    \/ \E n \in Nodes : merge(n)
    \/ \E mode \in ResolveModes, all \in BOOLEAN, pats \in SUBSET Files :
          \E fails \in SUBSET unresolved : resolve(mode, all, pats, fails)

WdSpec == Init /\ [][WdNext]_vars

GuardNext ==
    \/ ask_pushable
    \/ \E guards \in SeqsUpTo(PatchGuards, MaxGuards) : set_guards(guards)
    \/ \E guards \in SUBSET GuardNames : set_active(guards)

\* any guards on the patch and any set of active guards, nothing else yet
GuardStart == CoreInit /\ RepoInit /\ GuardInit /\ NoAcl /\ Apart

GuardSpec == GuardStart /\ [][GuardNext]_vars

\* a changegroup of up to MaxBatch changesets from a remote or a local
\* source, or a commit
AclNext ==
    \/ \E source \in {"serve", "push"},
          group \in SeqsUpTo(Changesets, MaxBatch) \ {<<>>} :
          pretxn("pretxnchangegroup", source, group)
    \/ \E c \in Changesets : pretxn("pretxncommit", "", <<c>>)

\* any configuration of the hook over an empty repository
AclStart == CoreInit /\ RepoInit /\ NoGuards /\ AclInit /\ Apart

AclSpec == AclStart /\ [][AclNext]_vars

\* the outcomes of patches that touch no path
Untouched == {o \in Outcomes : o.files = {}}

\* the queue of a user who imports, guards, pushes and pops patches
PushNext ==
    \/ \E name \in PatchNames : qimport(name)
    \/ \E name \in PatchNames, guards \in SeqsUpTo(PatchGuards, 1) :
          qguard(name, guards)
    \/ \E guards \in SUBSET GuardNames : qselect(guards)
    \/ \E force \in BOOLEAN, outs \in [1..1 -> Outcomes] :
          qpush(FALSE, force, outs)
    \/ \E patch \in PatchNames, force \in BOOLEAN,
          outs \in [1..MaxPatches -> Untouched] :
          qpush_patch(patch, force, outs)
    \/ \E all \in BOOLEAN, force \in BOOLEAN, m \in SUBSET Paths :
          qpop(all, force, m)

PushSpec == Init /\ [][PushNext]_vars

\* the commands that change the applied stack or the series
StackNext ==
    \/ \E name \in PatchNames : qimport(name)
    \/ \E name \in PatchNames, fails \in BOOLEAN : qnew(name, fails)
    \/ \E all \in BOOLEAN :
          \E outs \in [1..(IF all THEN MaxPatches ELSE 1) -> Untouched] :
             qpush(all, FALSE, outs)
    \/ \E rev \in Nodes \cup {nullid}, how \in MergeResults :
          \E out \in {o \in Untouched : o.res = "ok"} :
             qpush_merge(FALSE, rev, how, out)
    \/ \E all \in BOOLEAN, pats \in {{}} \cup {{n} : n \in PatchNames} :
          qpop_patch(pats, all, FALSE, {})
    \/ \E res \in RefreshResults : qrefresh(res)
    \/ \E patch \in PatchNames, name \in PatchNames : qrename(patch, name)
    \/ \E patch \in PatchNames : qdelete(patch)
    \/ \E rev \in Nodes : qfinish(rev)
    \/ \E empty \in BOOLEAN : qsave(empty)
    \/ \E revs \in SUBSET Nodes, keep \in BOOLEAN :
          hg_strip(revs, keep, FALSE)

StackSpec == Init /\ [][StackNext]_vars

\* patches that apply
Applying == {o \in Untouched : o.res = "ok"}

\* the qdelete command with the commands that make and apply patches
DeleteNext ==
    \/ \E name \in PatchNames : qimport(name)
    \/ \E all \in BOOLEAN :
          \E outs \in [1..(IF all THEN MaxPatches ELSE 1) -> Applying] :
             qpush(all, FALSE, outs)
    \/ qsave(FALSE)
    \/ \E patches \in SeqsUpTo(PatchNames, MaxPatches),
          revs \in SUBSET Nodes, keep \in BOOLEAN :
          queue_delete(patches, revs, keep)

DeleteSpec == Init /\ [][DeleteNext]_vars

\* the qfinish command with the commands that make and apply patches and
\* those that make other changesets
FinishNext ==
    \/ \E name \in PatchNames : qimport(name)
    \/ \E all \in BOOLEAN :
          \E outs \in [1..(IF all THEN MaxPatches ELSE 1) -> Applying] :
             qpush(all, FALSE, outs)
    \/ qsave(FALSE)
    \/ \E f \in Paths : add(f)
    \/ commit
    \/ update(nullid)
    \/ \E revs \in SUBSET Nodes : queue_finish(revs)

FinishSpec == Init /\ [][FinishNext]_vars

\* the commands that move the parents of the working directory or strip
\* changesets, over a series of one patch
ParentNext ==
    \/ \E fails \in BOOLEAN : qnew("a", fails)
    \/ \E force \in BOOLEAN, outs \in [1..1 -> Untouched] :
          qpush(FALSE, force, outs)
    \/ \E all \in BOOLEAN, force \in BOOLEAN,
          pats \in {{}} \cup {{n} : n \in PatchNames} :
          qpop_patch(pats, all, force, {})
    \/ \E res \in RefreshResults : qrefresh(res)
    \/ \E empty \in BOOLEAN : qsave(empty)
    \/ \E rev \in Nodes, delete \in BOOLEAN : qrestore(rev, delete)
    \/ \E revs \in SUBSET Nodes, keep \in BOOLEAN, force \in BOOLEAN :
          hg_strip(revs, keep, force)
    \/ \E f \in Paths : add(f)
    \/ commit
    \/ \E n \in Nodes \cup {nullid} : update(n)

ParentSpec == Init /\ [][ParentNext]_vars

\* the working directory of a user who merges and pushes and pops patches,
\* with and without --force
DirNext ==
    \/ \E f \in Paths : add(f) \/ remove(f)
    \/ commit
    \/ \E n \in Nodes \cup {nullid} : update(n)
    \/ \E n \in Nodes : merge(n)
    \/ \E fails \in BOOLEAN : qnew("a", fails)
    \/ \E force \in BOOLEAN, outs \in [1..1 -> Outcomes] :
          qpush(FALSE, force, outs)
    \/ \E force \in BOOLEAN, rev \in Nodes, how \in MergeResults :
          \E out \in {o \in Outcomes :
                        o.res = "ok" /\ (how # "ok" => o.files = {})} :
             qpush_merge(force, rev, how, out)
    \/ \E all \in BOOLEAN, force \in BOOLEAN, m \in SUBSET Paths :
          qpop(all, force, m)

DirSpec == Init /\ [][DirNext]_vars

\* one user who commits, merges, creates and pops a patch, and pushes
RemoteNext ==
    \/ \E f \in Paths : add(f)
    \/ commit
    \/ \E n \in Nodes \cup {nullid} : update(n)
    \/ \E n \in Nodes : merge(n)
    \/ qnew("a", FALSE)
    \/ qpop(FALSE, FALSE, {})
    \/ \E force \in BOOLEAN, revs \in SUBSET Nodes : push(force, revs)

RemoteSpec == Init /\ [][RemoteNext]_vars

\* one user who creates and pops patches and manages the queues
QueueOps == {"", "create", "rename", "delete", "purge"}

QueueNext ==
    \/ qnew("a", FALSE)
    \/ qpop(FALSE, FALSE, {})
    \/ \E op \in QueueOps, name \in QueueNames : qqueue(op, name)

QueueSpec == Init /\ [][QueueNext]_vars

\* the processes that push keys to one repository
KeyNext ==
    \E p \in Procs :
       \/ \E namespace \in Namespaces, key \in Keys, old \in Values,
             new \in Values : debugpushkey(p, namespace, key, old, new)
       \/ pushkey_wlock(p)
       \/ pushkey_compare(p)
       \/ pushkey_write(p)

KeySpec == Init /\ [][KeyNext]_vars

\* one authorizer that is created, saved to a path and loaded from it
Names == {None} \cup {Some(s) : s \in Strings}

Tokens == {None} \cup {Some(AccessToken(k, s)) : k, s \in Strings}

OAuthNext ==
    \/ /\ oa.credentials = None
       /\ \E consumer_name \in Names, consumer_secret \in Strings,
             access_token \in Tokens :
             OAuthAuthorizer(consumer_name, consumer_secret, access_token)
    \/ save_to_path
    \/ load_from_path

OAuthSpec == Init /\ [][OAuthNext]_vars

\* ------------------------------------------------------------ the claims
\* p takes a step
Steps(p) == ps'[p] # ps[p]

\* p writes to the store: its transaction is open, or it is about to strip,
\* roll back or recover
Writing(p) ==
    \/ ps[p].tr.count > 0
    \/ At(p, "repair_strip") \/ At(p, "rollback") \/ At(p, "recover")

\* C1: at most one process holds the store lock and at most one holds the
\* working-directory lock (an acquisition that succeeded while another
\* process held the lock would make two holders), and there is at most one
\* writer: whoever writes to the store holds the store lock.
C1_MutualExclusion ==
    /\ \A p, o \in Procs :
          p # o => /\ ~(ps[p].w > 0 /\ ps[o].w > 0)
                   /\ ~(ps[p].l > 0 /\ ps[o].l > 0)
                   /\ ~(Writing(p) /\ Writing(o))
    /\ \A p \in Procs : Writing(p) => ps[p].l > 0

\* a process writes under both locks while another waits for one of them
C1_Witness ==
    \E p, o \in Procs :
        /\ p # o
        /\ ps[p].w > 0 /\ ps[p].l > 0 /\ ps[p].tr.count > 0
        /\ Blocked(o)

\* the commands whose operations hold both locks at once
BothLocks == {"commit", "qpush", "qpop", "qrefresh", "strip", "qclone",
              "import", "rollback"}

C3_LockFirst ==
    [][\A p \in Procs :
          ps[p].cmd \in BothLocks /\ ps[p].l = 0 /\ ps'[p].l > 0
              => ps[p].w = 0]_vars

\* C3, amended: no operation acquires wlock while it holds the store lock;
\* where both are held, wlock was acquired first.
C3_WlockFirst ==
    [][\A p \in Procs : ps[p].w = 0 /\ ps'[p].w > 0 => ps[p].l = 0]_vars

\* a process holds wlock and is about to acquire the store lock
C3_Witness ==
    \E p \in Procs : At(p, "lock") /\ ps[p].w > 0 /\ ps[p].l = 0

\* p waits for a lock that o holds
WaitsFor(p, o) ==
    \/ At(p, "wlock") /\ ps[o].w > 0
    \/ At(p, "lock") /\ ps[o].l > 0

Aborting(p) ==
    /\ ps[p].cmd = "qpush" /\ ps[p].exc # "none"
    /\ ps[p].tr.count > 0 /\ ps'[p].tr.count = 0

\* C5: when something raised inside queue.apply while the transaction
\* "qpush" was open, the step that ends the transaction leaves every store
\* file as it was when the transaction began, whatever was committed inside
\* it; both locks are still held, the caches are invalidated, and the
\* exception goes on.
C5_AbortRestores ==
    [][\A p \in Procs :
          Aborting(p) =>
              /\ cl' = txpre.cl /\ mf' = txpre.mf /\ fl' = txpre.fl
              /\ ps'[p].l > 0 /\ ps'[p].w > 0
              /\ ps'[p].cache = -1
              /\ ps'[p].cmd = "qpush" /\ ps'[p].exc = ps[p].exc]_vars

\* a qpush that had committed a patch has aborted: the changeset is gone, the
\* exception is on its way, the store lock is not released yet
C5_Witness ==
    \E p \in Procs :
        /\ ps[p].cmd = "qpush" /\ ps[p].exc = "Abort"
        /\ ps[p].tr.count = 0 /\ ps[p].l > 0
        /\ ps[p].rev > 0 /\ ps[p].rev \notin Range(cl)

\* C6: in every state, also between the steps of a commit or of applying a
\* changegroup and after a crash, the manifest revision and the file
\* revisions of every changelog entry exist.
C6_ChangelogLast ==
    \A c \in Range(cl) : c \in Range(mf) /\ c \in Range(fl)

\* unbundle has added the manifests and the files of a changegroup and not
\* yet its changesets
C6_Witness ==
    \E p \in Procs :
        /\ ps[p].cmd = "unbundle" /\ At(p, "changelog_add")
        /\ Range(mf) \ Range(cl) # {} /\ Range(fl) \ Range(cl) # {}

\* nothing was removed from the store since the journaled transaction began
Intact ==
    /\ Len(cl) >= Len(txpre.cl) /\ Prefix(cl, Len(txpre.cl)) = txpre.cl
    /\ Len(mf) >= Len(txpre.mf) /\ Prefix(mf, Len(txpre.mf)) = txpre.mf
    /\ Len(fl) >= Len(txpre.fl) /\ Prefix(fl, Len(txpre.fl)) = txpre.fl

\* C7: when the writer was killed inside its transaction, the recovery
\* leaves every store file as it was when the transaction began (the tip is
\* the one of before), removes the journal, and leaves a repository that
\* verify finds clean.
C7_RecoverRestores ==
    [][\A p \in Procs :
          At(p, "recover") /\ Steps(p) /\ journal.on /\ Intact =>
              /\ cl' = txpre.cl /\ mf' = txpre.mf /\ fl' = txpre.fl
              /\ ~journal'.on
              /\ Clean(cl', mf', fl')]_vars

\* a writer was killed after it appended to the filelog and before it
\* appended to the changelog, and recover holds the lock
C7_Witness ==
    \E p \in Procs :
        /\ At(p, "recover") /\ ps[p].l > 0
        /\ journal.on /\ journal.cl = -1 /\ journal.fl # -1
        /\ Len(fl) > Len(cl) /\ Intact

\* C8, as stated: the reader never fails because of the writer.
C8_NeverFails == rd.res # "failed"

\* C8, amended: unless the writer truncates the store during the read
\* (rollback, strip, abort, recover), every revision that the changelog
\* the reader saw refers to is there, and the reader does not fail.
C8_FailsOnlyOnTruncation ==
    /\ rd.pc = "reading" /\ ~rd.trunc =>
           \A c \in Range(rd.snap) : c \in Range(mf) /\ c \in Range(fl)
    /\ rd.res = "failed" => rd.trunc

\* the writer has committed a changeset since the reader read the changelog
C8_Witness ==
    /\ rd.pc = "reading" /\ ~rd.trunc
    /\ rd.snap # <<>> /\ Len(cl) > Len(rd.snap)
    /\ \A p \in Procs : ps[p].tr.count = 0

\* the changesets of the changelog whose transaction was closed
Committed ==
    Range(IF journal.on /\ journal.cl # -1 THEN Prefix(cl, journal.cl)
          ELSE cl)

StripStep(p) == At(p, "repair_strip") /\ Steps(p)

RollbackStep(p) == (At(p, "rollback") \/ At(p, "exact_check")) /\ Steps(p)

Gone == Range(cl) \ Range(cl')

\* C10, as stated: every strip keeps a backup bundle of the changesets it
\* removes.
C10_AlwaysBackup ==
    [][\A p \in Procs : StripStep(p) /\ Gone # {} => Gone \subseteq backups']_vars

\* C10, amended: the strip command without --backup and --no-backup keeps a
\* backup bundle of the changesets it removes; with one of them, and in
\* qpop, qrefresh and qclone, no bundle of the removed changesets is kept.
C10_BackupByDefault ==
    [][\A p \in Procs :
          StripStep(p) /\ Gone # {} =>
              IF ps[p].cmd = "strip" /\ ps[p].arg.b = ""
              THEN Gone \subseteq backups'
              ELSE backups' = backups]_vars

\* the strip command without options has removed a changeset that is now in
\* a backup bundle
C10_Witness ==
    \E p \in Procs :
        /\ ps[p].cmd = "strip" /\ ps[p].arg.b = ""
        /\ ps[p].rev \in backups /\ ps[p].rev \notin Range(cl)

\* the commands that call queue.strip
StripCommands == {"strip", "qpop", "qrefresh", "qclone"}

\* p leaves its command (it is not killed)
Exits(p) ==
    /\ ps[p].cmd # "idle" /\ ps'[p].cmd = "idle"
    /\ ~(ps[p].rpos = 0 /\ Cur(p).op \in RaiseOps /\ ps[p].tr.count > 0)

\* the holds of wlock and of the store lock that p has not given back when
\* it takes its last step
Leftover(p) ==
    <<ps[p].w - (IF At(p, "wunlock") THEN 1 ELSE 0),
      ps[p].l - (IF At(p, "unlock") THEN 1 ELSE 0)>>

\* C11: repair.strip runs only while its process holds wlock and the store
\* lock, which it still holds when the strip is done, and a command that
\* calls queue.strip has given back both locks when it ends, also when the
\* strip raised.
C11_StripUnderBothLocks ==
    [][\A p \in Procs :
          /\ StripStep(p) =>
                 /\ ps[p].w > 0 /\ ps[p].l > 0
                 /\ ps'[p].w > 0 /\ ps'[p].l > 0
          /\ ps[p].cmd \in StripCommands /\ Exits(p) =>
                 Leftover(p) = <<0, 0>>]_vars

\* the strip has raised, and its process is about to release the locks
C11_Witness ==
    \E p \in Procs :
        /\ ps[p].cmd \in {"strip", "qpop", "qclone"}
        /\ ps[p].exc \in {"Abort", "RepoError"}
        /\ At(p, "unlock") /\ ps[p].l > 0 /\ ps[p].w > 0

\* the step is a commit of an uncommitted merge that creates a changeset
\* with the two parents of the dirstate
TwoParents ==
    /\ ret'.code = 0
    /\ nnodes' \notin DOMAIN ctxs
    /\ DOMAIN ctxs' = DOMAIN ctxs \cup {nnodes'}
    /\ ctxs'[nnodes'].p1 = dirstate.p1
    /\ ctxs'[nnodes'].p2 = dirstate.p2

\* the working directory is an uncommitted merge
Merging == dirstate.p1 # nullid /\ dirstate.p2 # nullid

\* C12: while a path of the mergestate is unresolved, commit is refused and
\* creates no changeset; once no path is unresolved, and in particular
\* right after resolve --mark of all paths, the commit of the merge succeeds
\* and creates a changeset with the two parents of the working directory.
C12_CommitRefusedWhileUnresolved ==
    [][ret'.cmd = "commit" =>
          /\ unresolved # {} => ret'.code = -1 /\ ctxs' = ctxs
          /\ unresolved = {} /\ Merging => TwoParents
          /\ ret.cmd = "resolve -m" /\ ret.pats = {} /\ Merging
                => TwoParents]_vars

\* a merge with conflicts has been committed with two parents
C12_Witness ==
    /\ ret.cmd = "commit"
    /\ ret.code = 0
    /\ ctxs[dirstate.p1].p1 # nullid
    /\ ctxs[dirstate.p1].p2 # nullid

\* the step is a resolve that ran
ResolveStep == ret'.cmd \in ResolveModes /\ ret'.code # -1

\* the patterns of the resolve of this step match the path
matched(f) == ret'.pats = {} \/ f \in ret'.pats

\* how resolve moves an unresolved path: resolved by --mark or by a merge
\* that succeeded; a failed merge leaves it unresolved and resolve returns 1
Resolving(f) ==
    /\ ms[f] = "u" /\ ms'[f] = "r"
          => matched(f) /\ ret'.cmd \in {"resolve", "resolve -m"}
    /\ ret'.cmd = "resolve -m" /\ matched(f) => ms'[f] = "r"
    /\ ret'.cmd = "resolve" /\ matched(f) /\ ms[f] = "u" /\ ms'[f] = "u"
          => ret'.code = 1
    /\ ret'.cmd = "resolve" /\ ret'.code = 0 /\ matched(f) => ms'[f] = "r"

\* resolve returns 1 only when a merge it tried failed
Failing ==
    ret'.cmd = "resolve" /\ ret'.code = 1
       => \E f \in DOMAIN ms : matched(f) /\ ms[f] = "u" /\ ms'[f] = "u"

\* C13 as stated: the status of a path only moves from unresolved to
\* resolved, by resolve --mark or a successful re-merge; a failed re-merge
\* leaves it unresolved and resolve returns 1.
C13_OnlyToResolved ==
    [][ResolveStep =>
          /\ DOMAIN ms' = DOMAIN ms
          /\ Failing
          /\ \A f \in DOMAIN ms :
                /\ Resolving(f)
                /\ ms[f] = "r" => ms'[f] = "r"]_vars

\* C13: the status of a path moves from unresolved to resolved by resolve
\* --mark or a successful re-merge; a failed re-merge leaves it unresolved
\* and resolve returns 1; a resolved path stays resolved unless resolve
\* --unmark marks it unresolved again.
C13_StatusMachine ==
    [][ResolveStep =>
          /\ DOMAIN ms' = DOMAIN ms
          /\ Failing
          /\ \A f \in DOMAIN ms :
                /\ Resolving(f)
                /\ ms[f] = "r" /\ ms'[f] # "r"
                      => ret'.cmd = "resolve -u" /\ matched(f)]_vars

\* the re-merge of the paths named failed and left a path unresolved
C13_Witness ==
    /\ ret.cmd = "resolve"
    /\ ret.code = 1
    /\ ret.pats # {}
    /\ unresolved # {}

\* the names of the guards of the given sign that the patch carries
Carried(sign) ==
    {g \in GuardNames :
       \E i \in 1..Len(gs.patchguards) : gs.patchguards[i] = <<sign, g>>}

\* C19: a patch is pushable exactly when none of its negative guards is
\* active and it has no positive guard or at least one of its positive
\* guards is active.
C19_Pushable ==
    gs.res.called =>
       (gs.res.ok <=> /\ Carried("-") \cap gs.active = {}
                      /\ \/ Carried("+") = {}
                         \/ Carried("+") \cap gs.active # {})

\* pushable has answered for a patch with an active positive guard and an
\* inactive negative guard
C19_Witness ==
    /\ gs.res.called
    /\ gs.res.ok
    /\ Carried("+") \cap gs.active # {}
    /\ Carried("-") # {}

\* the entries of a section that name the user of the hook
Mine(section) ==
    {section.items[i].pat :
       i \in {j \in 1..Len(section.items) :
                usermatch(acl.user, section.items[j].users)}}

\* the access rules as the documentation of the hook states them
Allowed(c) ==
    /\ ~\E k \in Mine(acl.cfg.denybranches) : k = "*" \/ k = c.branch
    /\ \/ ~acl.cfg.allowbranches.present
       \/ \E k \in Mine(acl.cfg.allowbranches) : k = "*" \/ k = c.branch
    /\ \A i \in 1..Len(c.files) :
          /\ ~\E k \in Mine(acl.cfg.deny) : glob(k, c.files[i])
          /\ \/ ~acl.cfg.allow.present
             \/ \E k \in Mine(acl.cfg.allow) : glob(k, c.files[i])

\* the hook has run and has checked the changesets: a commit, or a
\* changegroup from a source of acl.sources
Checked ==
    /\ acl.res # ""
    /\ acl.hooktype = "pretxncommit" \/ acl.source \in acl.cfg.sources

\* C16: when the acl hook rejects one changeset of the pending transaction,
\* the hook fails, the transaction is aborted and none of the changesets of
\* the changegroup or commit is in the changelog afterwards, those before
\* the rejected one included.
C16_RejectAbortsAll ==
    [][/\ acl.res = ""
       /\ Checked'
       /\ \E i \in 1..Len(acl'.group) : ~Allowed(acl'.group[i])
       => acl'.res = "Abort" /\ acl'.log = acl.log]_vars

\* the hook accepted the first changeset of a changegroup and rejected the
\* second one
C16_Witness ==
    /\ Checked
    /\ acl.res = "Abort"
    /\ Len(acl.group) = 2
    /\ Allowed(acl.group[1])
    /\ ~Allowed(acl.group[2])
    /\ acl.log = <<>>

\* C17: the hook accepts a changeset exactly when its branch is not matched
\* by the user's acl.deny.branches entries, acl.allow.branches is absent or
\* matches the branch, and every file of the changeset is not matched by the
\* user's acl.deny entries and acl.allow is absent or matches it; so a deny
\* match wins over an allow match, an absent section permits everyone and a
\* present allow section without an entry for the user permits nothing.
C17_AcceptsExactlyWhen ==
    Checked =>
       (acl.res = "None" <=>
           \A i \in 1..Len(acl.group) : Allowed(acl.group[i]))

\* the hook rejected a commit because acl.allow is present and has an entry,
\* but none for the user
C17_Witness ==
    /\ Checked
    /\ acl.res = "Abort"
    /\ Len(acl.group) = 1
    /\ ~acl.cfg.denybranches.present
    /\ ~acl.cfg.allowbranches.present
    /\ ~acl.cfg.deny.present
    /\ acl.cfg.allow.items # <<>>
    /\ Mine(acl.cfg.allow) = {}

\* C20: a loop that repeats qpush with no argument while it returns 0
\* terminates: over a series that is not empty, every qpush that returns 0
\* has applied at least one more patch, so that qpush returns non-zero when
\* no pushable unapplied patch remains.
C20_PushReturnsZeroOnlyOnProgress ==
    [][ret'.cmd = "qpush" /\ ret'.code = 0 /\ mq.series # <<>>
       => Len(mq'.applied) > Len(mq.applied)]_vars

\* C14: after any sequence of mq and core operations each of the two
\* parents of the dirstate is the null node or a node of the changelog: no
\* strip leaves a parent that points at a stripped changeset.
C14_DirstateParentsValid ==
    {dirstate.p1, dirstate.p2} \subseteq DOMAIN ctxs \cup {nullid}

\* the entries of the applied stack that are markers, not patches
Markers == {i \in 1..Len(mq.applied) :
              mq.applied[i].name \in {saveline, mergemarker}}

AppliedBelowMarkersInSeries ==
    \A i \in 1..Len(mq.applied) :
       (\A j \in Markers : i < j) => mq.applied[i].name \in Range(series)

\* C15: in every reachable dirstate a path in state added is absent from
\* the manifest of the first parent, a path in state removed is present in
\* it, and a path is in state merged only when both parents of the working
\* directory are non-null; also after mq's merge-mode apply and after qpop.
C15_DirstateEntries ==
    ~unknown_parent =>
       \A f \in Paths :
          /\ dirstate.map[f] = "a" => f \notin manifest(dirstate.p1)
          /\ dirstate.map[f] = "r" => f \in manifest(dirstate.p1)
          /\ dirstate.map[f] = "m" =>
                dirstate.p1 # nullid /\ dirstate.p2 # nullid

\* C21: series_end() is the index of the first pushable patch after the last
\* applied patch, or the length of the series when there is none, and
\* series_end(True) is the index just past the last applied patch (stated
\* while the top of the applied stack names a patch of the series)
C21_SeriesEnd ==
    LET len == Len(mq.series)
        past == IF mq.applied = <<>> THEN 0
                ELSE find_series(mq.applied[Len(mq.applied)].name) + 1
        ok == {i \in past..(len - 1) : q_pushable(i)}
    IN  (mq.applied # <<>> => isapplied(mq.applied[Len(mq.applied)].name)
                              /\ past > 0)
        => /\ queue_series_end(TRUE) = past
           /\ queue_series_end(FALSE) =
                 IF ok = {} THEN len
                 ELSE CHOOSE i \in ok : \A j \in ok : i <= j

\* the entries of the applied stack that name the patch, by position
At_applied(patch) == {i \in 1..Len(mq.applied) : mq.applied[i].name = patch}

\* C22: qpush never moves backwards: qpush of a named patch that is applied
\* below the top is refused and leaves the series, the applied stack and the
\* repository unchanged, qpush of the top patch returns 0 and changes
\* nothing, and every other qpush only appends to the applied stack
C22_PushNeverBackwards ==
    [][ret'.cmd = "qpush" =>
         /\ \A patch \in ret'.pats :
               /\ (At_applied(patch) # {}
                   /\ At_applied(patch) # {Len(mq.applied)})
                  => /\ ret'.code = -1
                     /\ UNCHANGED <<mq, ctxs, nnodes, dirstate>>
               /\ At_applied(patch) = {Len(mq.applied)}
                  => /\ ret'.code = 0
                     /\ UNCHANGED <<mq, ctxs, nnodes, dirstate>>
         /\ mq'.series = mq.series
         /\ Len(mq'.applied) >= Len(mq.applied)
         /\ SubSeq(mq'.applied, 1, Len(mq.applied)) = mq.applied]_vars

\* a named patch below the top of the stack was pushed and refused
C22_Witness ==
    /\ ret.cmd = "qpush"
    /\ ret.code = -1
    /\ \E patch \in ret.pats :
          At_applied(patch) # {} /\ At_applied(patch) # {Len(mq.applied)}

\* a step of qpop that ended with success
PopStep == ret'.cmd \in {"qpop", "qpop -a"} /\ ret'.code = 0

\* the changesets of the entries a qpop removed
Removed ==
    {mq.applied[i].node : i \in (Len(mq'.applied) + 1)..Len(mq.applied)}

\* what a qpop that removed entries leaves: a prefix of the stack, without
\* the top entry, or with the named patch on top, or empty with --all, and
\* none of the changesets gone
Popped(gone) ==
    LET len == Len(mq.applied)
        left == Len(mq'.applied)
    IN  /\ left < len
        /\ mq'.applied = SubSeq(mq.applied, 1, left)
        /\ ret'.cmd = "qpop -a" => left = 0
        /\ (ret'.cmd = "qpop" /\ ret'.pats = {}) => left = len - 1
        /\ (ret'.cmd = "qpop" /\ ret'.pats # {})
           => left > 0 /\ mq'.applied[left].name \in ret'.pats
        /\ gone \cap DOMAIN ctxs' = {}

\* qpop without a name on an empty stack changes nothing and returns 0 with
\* --all and 1 without it
PopEmpty ==
    (ret'.cmd \in {"qpop", "qpop -a"} /\ mq.applied = <<>> /\ ret'.pats = {})
    => /\ UNCHANGED <<mq, ctxs, dirstate>>
       /\ ret'.code = IF ret'.cmd = "qpop -a" THEN 0 ELSE 1

\* C23 as stated: after every successful qpop of a stack that is not empty
\* the applied stack is a proper prefix of the stack before it and the
\* changesets of all removed entries are stripped
C23_ProperPrefix ==
    [][/\ (PopStep /\ mq.applied # <<>>) => Popped(Removed)
       /\ PopEmpty]_vars

\* C23: a successful qpop of a stack that is not empty leaves a proper prefix
\* of the stack (without a name the stack less its top entry, with a name
\* the named patch on top, with --all the empty stack) and strips the
\* changeset of the lowest removed entry with all its descendants, unless
\* the named patch already was the top, when qpop succeeds and changes
\* nothing; qpop without a name on an empty stack changes nothing and
\* returns 0 with --all and 1 without it
C23_PrefixUnlessAtTop ==
    [][/\ (PopStep /\ mq.applied # <<>>)
          => IF ret'.cmd = "qpop" /\ ret'.pats # {}
                /\ mq.applied[Len(mq.applied)].name \in ret'.pats
                /\ At_applied(mq.applied[Len(mq.applied)].name)
                   = {Len(mq.applied)}
             THEN UNCHANGED <<mq, ctxs, dirstate>>
             ELSE Popped(descendants(
                            {mq.applied[Len(mq'.applied) + 1].node}))
       /\ PopEmpty]_vars

\* a named patch was left on top by a qpop that stripped a changeset
C23_Witness ==
    /\ ret.cmd = "qpop"
    /\ ret.code = 0
    /\ mq.applied # <<>>
    /\ mq.applied[Len(mq.applied)].name \in ret.pats
    /\ mq.applied[Len(mq.applied)].node = nnodes - 1
    /\ nnodes \notin DOMAIN ctxs

\* a named patch of the qdelete is applied or is not in the series
NamedApplied ==
    \E patch \in ret'.pats : isapplied(patch) \/ patch \notin Range(series)

\* no applied patch left the stack, the series or the patch directory
AppliedKept ==
    /\ mq'.applied = mq.applied
    /\ \A i \in 1..Len(mq.applied) :
          /\ mq.applied[i].name \in mq.files
             => mq.applied[i].name \in mq'.files
          /\ mq.applied[i].name \in Range(series)
             => \E j \in 1..Len(mq'.series) :
                   mq'.series[j].name = mq.applied[i].name

\* a step of qdelete, with --rev or without
DeleteStep == ret'.cmd \in {"qdelete", "qdelete -r"}

\* C24 as stated: qdelete never removes an applied patch, and when a named
\* patch is applied or is not in the series it aborts with the series, the
\* applied stack and the patch files as they were
C24_NeverRemovesApplied ==
    [][DeleteStep =>
         /\ AppliedKept
         /\ NamedApplied => ret'.code = -1 /\ UNCHANGED mq]_vars

\* C24: a qdelete without --rev never removes an applied patch, and a
\* qdelete, with --rev or without, one of whose named patches is applied or
\* is not in the series aborts with the series, the applied stack and the
\* patch files as they were
C24_NamedAppliedAborts ==
    [][DeleteStep =>
         /\ ret'.cmd = "qdelete" => AppliedKept
         /\ NamedApplied => ret'.code = -1 /\ UNCHANGED mq]_vars

\* a qdelete of two patches, the second of them applied, was refused
C24_Witness ==
    /\ ret.cmd = "qdelete"
    /\ ret.code = -1
    /\ \E p, q \in ret.pats :
          /\ p # q
          /\ ~isapplied(p) /\ p \in Range(series) /\ p \in mq.files
          /\ isapplied(q)

\* the revisions are the changesets of the first entries of the applied
\* stack, as many as there are revisions
Bottom(revs) ==
    /\ Cardinality(revs) <= Len(mq.applied)
    /\ \A i \in 1..Cardinality(revs) : mq.applied[i].node = sorted(revs)[i]

\* what a qfinish of the first k entries leaves: the stack and the series
\* without them, and every changeset
Finished(k) ==
    /\ mq'.applied = SubSeq(mq.applied, k + 1, Len(mq.applied))
    /\ mq'.series =
          SelectSeq(mq.series,
                    LAMBDA e : \A i \in 1..k : mq.applied[i].name # e.name)
    /\ ctxs' = ctxs

\* C25 as stated: a qfinish that succeeds was given the changesets of the
\* first k applied entries and removes exactly them from the applied stack
\* and the series, leaving the changelog alone; given anything else it
\* aborts, with the applied stack and the series unchanged
C25_OnlyBottomElseAbort ==
    [][\A revs \in SUBSET Nodes :
          queue_finish(revs) =>
             IF Bottom(revs) /\ ret'.code = 0
             THEN Finished(Cardinality(revs))
             ELSE /\ ret'.code = -1
                  /\ mq'.applied = mq.applied
                  /\ mq'.series = mq.series]_vars

\* C25: the same, but with no patch applied qfinish returns 0 whatever the
\* revisions, and changes nothing
C25_OnlyBottomElseUnchanged ==
    [][\A revs \in SUBSET Nodes :
          queue_finish(revs) =>
             IF Bottom(revs) /\ ret'.code = 0
             THEN Finished(Cardinality(revs))
             ELSE /\ ret'.code = IF mq.applied = <<>> /\ revs # {}
                                 THEN 0 ELSE -1
                  /\ mq'.applied = mq.applied
                  /\ mq'.series = mq.series]_vars

\* a qfinish took the first entry off a stack of two
C25_Witness ==
    /\ ret.cmd = "qfinish"
    /\ ret.code = 0
    /\ mq.applied # <<>>
    /\ ctxs[mq.applied[1].node].p1 \in DOMAIN ctxs
    /\ Len(mq.series) = Len(mq.applied)

\* C26: a commit whose working directory has the changeset of an applied
\* patch as first parent is refused and creates no changeset, and no commit
\* creates a child of the changeset of an applied patch
C26_NoCommitOverApplied ==
    [][ret'.cmd = "commit" =>
         /\ wdir_patched => /\ ret'.code = -1
                            /\ ctxs' = ctxs
                            /\ nnodes' = nnodes
         /\ nnodes' > nnodes
            => {ctxs'[nnodes'].p1, ctxs'[nnodes'].p2}
               \cap nodesof(mq.applied) = {}]_vars

\* the changesets a step sends to the remote
Sent == DOMAIN remote' \ DOMAIN remote

\* C27: a push without force sends no changeset of an applied patch, and
\* with patches applied it aborts unless revisions are given and the
\* changesets they select for sending contain no applied patch
C27_NeverSendsApplied ==
    [][\A revs \in SUBSET Nodes :
         push(FALSE, revs) =>
           /\ Sent \cap nodesof(mq.applied) = {}
           /\ /\ mq.applied # <<>>
              /\ revs = {} \/ outgoing(revs) \cap nodesof(mq.applied) # {}
              => ret'.code = -1 /\ Sent = {}]_vars

\* the queues qqueue lists
Registered(qs) == IF qs.listed THEN qs.all \cup {qs.active} ELSE {"patches"}

\* a step of qqueue NAME or qqueue --create NAME with patches applied
SwitchApplied == ret'.cmd \in {"qqueue", "qqueue -c"} /\ mq.applied # <<>>

\* with patches applied the queue is never switched, qqueue NAME and
\* qqueue --create NAME abort and leave the active queue as it is
Refused ==
    /\ ret'.cmd \in {"qqueue", "qqueue -c", "qqueue --rename",
                     "qqueue --delete", "qqueue --purge"}
       /\ mq.applied # <<>>
       => mq' = mq
    /\ SwitchApplied
       => ret'.code = -1 /\ queues'.active = queues.active

\* qqueue --delete of the active queue is refused and the list is unchanged
DeleteActiveRefused ==
    ret'.cmd = "qqueue --delete" /\ ret'.pats = {queues.active}
    => ret'.code = -1 /\ queues' = queues

\* C28 as stated: the active queue is never switched while patches are
\* applied, qqueue NAME and qqueue --create NAME abort then, --create still
\* adds NAME to the registered queues, and --delete of the active queue is
\* refused and leaves the list unchanged
C28_CreateAlwaysRegisters ==
    [][/\ Refused
       /\ SwitchApplied /\ ret'.cmd = "qqueue -c"
          => ret'.pats \subseteq Registered(queues')
       /\ DeleteActiveRefused]_vars

\* C28 amended: as C28, with --create adding NAME to the registered queues
\* when NAME is a valid queue name; an invalid name aborts the command
\* before anything is written
C28_ValidCreateRegisters ==
    [][/\ Refused
       /\ SwitchApplied /\ ret'.cmd = "qqueue -c"
          => \A name \in ret'.pats :
                IF validname(name)
                THEN name \in Registered(queues')
                ELSE queues' = queues
       /\ DeleteActiveRefused]_vars

\* qqueue --create b with a patch applied has aborted: b is registered and
\* is not the active queue
C28_Witness ==
    /\ ret = [cmd |-> "qqueue -c", pats |-> {"b"}, code |-> -1]
    /\ mq.applied # <<>>
    /\ "b" \in queues.all
    /\ queues.active = "patches"

\* the push of p ends with this step
Ends(p) == pk'.procs[p].pc = "done" /\ pk.procs[p].pc # "done"

\* a push is a compare-and-swap: when it ends, it has set the key to new and
\* reports success if the value of the key was old, and else it reports
\* failure and no value has changed
CompareAndSwap ==
    \A p \in Procs :
       Ends(p) =>
         LET a == pk.procs[p]
         IN  IF pk.store[<<a.ns, a.key>>] = a.old
             THEN /\ pk'.store = [pk.store EXCEPT ![<<a.ns, a.key>>] = a.new]
                  /\ pk'.procs[p].code = 0
             ELSE /\ pk'.store = pk.store
                  /\ pk'.procs[p].code = 1

\* two pushes of one key with the same old and different new values
\* overlapped and have ended
Raced(p, q) ==
    /\ p # q
    /\ q \in pk.procs[p].met
    /\ p \in pk.procs[q].met
    /\ pk.procs[p].pc = "done"
    /\ pk.procs[q].pc = "done"
    /\ pk.procs[p].ns = pk.procs[q].ns
    /\ pk.procs[p].key = pk.procs[q].key
    /\ pk.procs[p].old = pk.procs[q].old
    /\ pk.procs[p].new # pk.procs[q].new

BothSucceeded(p, q) == pk.procs[p].code = 0 /\ pk.procs[q].code = 0

\* C29 as stated: pushkey is a compare-and-swap, and of two racing pushes
\* with the same old value and different new values at most one succeeds
C29_AtMostOneSucceeds ==
    [][/\ CompareAndSwap
       /\ \A p, q \in Procs : Raced(p, q)' => ~BothSucceeded(p, q)']_vars

\* no third push has set the key while the push of p or of q was under way
Undisturbed(p, q) ==
    pk.procs[p].seen \subseteq {q} /\ pk.procs[q].seen \subseteq {p}

\* C29 amended: pushkey is a compare-and-swap, and of two racing pushes with
\* the same old value and different new values that both differ from old at
\* most one succeeds, unless a third push sets the key meanwhile
C29_AtMostOneChangeSucceeds ==
    [][/\ CompareAndSwap
       /\ \A p, q \in Procs :
             /\ Raced(p, q)'
             /\ Undisturbed(p, q)'
             /\ pk'.procs[p].new # pk'.procs[p].old
             /\ pk'.procs[q].new # pk'.procs[q].old
             => ~BothSucceeded(p, q)']_vars

\* two pushes from u, to v and to the unset key, have raced: one succeeded
\* and the other one failed
C29_Witness ==
    \E p, q \in Procs :
       /\ Raced(p, q)
       /\ pk.procs[p].old = "u"
       /\ pk.procs[p].new = "v"
       /\ pk.procs[q].new = ""
       /\ pk.procs[p].code = 0
       /\ pk.procs[q].code = 1
       /\ pk.store[<<pk.procs[p].ns, pk.procs[p].key>>] = "v"

\* the command of p ends with this step
Returns(p) == ps[p].cmd # "idle" /\ ps'[p].cmd = "idle"

\* the lock p asks for is held by another process
Denied(p) == Blocked(p) \/ (At(p, "wlock_nowait") /\ ~trylock(wheld, p))

\* p as its command ends: with the LockHeld of this step, if it is refused
\* the lock now, and else as it is
Ending(p) ==
    IF Denied(p)
    THEN LockHeld(p, IF At(p, "wlock_nowait") THEN "EAGAIN" ELSE "ETIMEDOUT")
    ELSE ps[p]

\* the operations that write to the repository
WriteOps == {"filelog_add", "manifest_add", "changelog_add", "tr_close",
             "repair_strip", "save_dirty", "removeundo"}

\* the operations of its command that p completed before the one at r
Written(p, r) ==
    {j \in 1..(r - 1) : Prog(p)[j].tag # "x" /\ Prog(p)[j].op \in WriteOps}

\* a command that ends because a lock was refused ends with an error: the
\* code is not 0, the warning of a timeout is not the one of a lock that is
\* held and not waited for, and it names a process that is not p
EndsWithError(p) ==
    LET e == Ending(p)
        out == runcatch(e.exc, e.inst)
    IN  /\ out.code # 0
        /\ out.locker \in Procs \ {p}
        /\ IF Prog(p)[e.rpos].op = "wlock_nowait"
           THEN out.reason = "lock held by"
           ELSE /\ Prog(p)[e.rpos].op \in {"wlock", "lock"}
                /\ out.reason = "timed out waiting for lock held by"

\* a process that is refused a lock raises LockHeld with a holder of the
\* lock, or ends at once
Fails(p) ==
    Denied(p) /\ ps'[p] # ps[p]
    => /\ IF At(p, "lock") THEN lheld[locker(p)] > 0
          ELSE wheld[locker(p)] > 0
       /\ \/ ps'[p].cmd = "idle"
          \/ /\ ps'[p].exc = "LockHeld"
             /\ ps'[p].inst.locker = locker(p)

\* C30 as stated: a command that cannot obtain a lock ends with an error
\* that tells a timeout from a held lock and names the holder, and none of
\* its effects has run
C30_NoEffects ==
    [][\A p \in Procs :
         /\ Fails(p)
         /\ Returns(p) /\ Ending(p).exc = "LockHeld"
            => EndsWithError(p) /\ Written(p, Ending(p).rpos) = {}]_vars

\* C30 amended: a command that cannot obtain a lock ends with an error that
\* tells a timeout from a held lock and names the holder, and after the lock
\* was refused it runs nothing but its finally and except blocks
C30_NothingAfterRefusal ==
    [][\A p \in Procs :
         /\ Fails(p)
         /\ Returns(p) /\ Ending(p).exc = "LockHeld" => EndsWithError(p)
         /\ ps[p].exc = "LockHeld" /\ ps'[p] # ps[p]
            => Cur(p).tag # "n"]_vars

\* qrefresh has stripped the changeset of the patch and waited in vain for
\* the store lock of its commit
C30_Witness ==
    \E p \in Procs :
       /\ ps[p].cmd = "qrefresh"
       /\ ps[p].exc = "LockHeld"
       /\ ps[p].inst.errno = "ETIMEDOUT"
       /\ ps[p].inst.locker \in Procs \ {p}
       /\ \E j \in Written(p, ps[p].rpos) : Prog(p)[j].op = "repair_strip"

\* save_to_path was called on an authorizer that lacks the consumer or
\* the access token
SavedIncomplete ==
    /\ oa.save # ""
    /\ \/ oa.credentials[1].consumer = None
       \/ oa.credentials[1].access_token = None

\* load_from_path was called after save_to_path on an authorizer that has
\* both
SavedAndLoaded ==
    /\ oa.save # ""
    /\ oa.load # ""
    /\ oa.credentials[1].consumer # None
    /\ oa.credentials[1].access_token # None

\* C31: saving OAuth credentials and loading them back is the identity:
\* whatever the consumer key, the consumer secret, the access-token key and
\* the access-token secret are, load_from_path after save_to_path returns an
\* authorizer with the same four values, and save raises
\* CredentialsFileError when the consumer or the access token is missing.
C31_SaveLoadIdentity ==
    /\ SavedIncomplete => oa.save = "CredentialsFileError"
    /\ SavedAndLoaded => /\ oa.save = "ok"
                         /\ oa.load = "ok"
                         /\ oa.loaded = oa.credentials

====
